---- MODULE Spec2Model ----
(***************************************************************************)
(* Model of the four-meme-bundler execution engine.                        *)
(*                                                                         *)
(*   Spec         the priority batch queue and its timer-driven dispatcher *)
(*                (BatchProcessor.queueBatch / startBatchProcessing /      *)
(*                processBatchQueue / processBatch / clearQueue /          *)
(*                stopProcessing)                                          *)
(*   SpecQueue    the queue alone, with more batches and every priority:   *)
(*                queueBatch, the timer ticks and clearQueue               *)
(*   SpecBundler  the bundle orchestrator (FourMemeBundler.                *)
(*                createLaunchBundle / executeLaunchBundle and the launch  *)
(*                and buy steps it awaits)                                 *)
(*   SpecTx       one processBatch call, transaction by transaction        *)
(*                (validateTransactions / processTransactionsInBatches /   *)
(*                processTransactionBatch / executeTransaction /           *)
(*                retryTransaction)                                        *)
(*   SpecValidate the same call over transactions that differ in what      *)
(*                validateTransactions looks at                            *)
(*   SpecCreate   createLaunchBundle alone, over several launch parameters *)
(*                and moments                                              *)
(*                                                                         *)
(* The clock now is Date.now() in coarse units; batchTimeout is counted in *)
(* the same unit and the dispatcher timer may fire any number of times     *)
(* within one unit.  Every await of the source is a point where other      *)
(* handlers may run, so an async handler is split into one action per      *)
(* stretch of code between two awaits.                                     *)
(***************************************************************************)
EXTENDS Integers, Sequences, FiniteSets, TLC

VARIABLES
    \* ---- BatchProcessor ----
    now,            \* Date.now(), in clock units
    batchCounter,   \* BatchProcessor.batchCounter
    batches,        \* every BatchQueue object built by queueBatch, by id
    batchQueue,     \* BatchProcessor.batchQueue, as the sequence of batch ids
    activeBatches,  \* BatchProcessor.activeBatches: processBatch id -> result
    isProcessing,   \* BatchProcessor.isProcessing
    timers,         \* number of setInterval timers created and never cleared
    dispatched,     \* history: ids shifted off the queue, in order
    lateEnqueue,    \* history: a queueBatch ran after the first shift
    \* ---- FourMemeBundler ----
    buyWallets,     \* FourMemeBundler.buyWallets, as the number of wallets
    bundleCounter,  \* FourMemeBundler.bundleCounter
    activeBundles,  \* FourMemeBundler.activeBundles: bundle id -> bundle
    bundleResults,  \* FourMemeBundler.bundleResults: bundle id -> result
    calls,          \* executeLaunchBundle invocations, by call number
    events,         \* 'bundleExecuted' events emitted, in order
    launchLog,      \* history per bundle: launches sent, launches confirmed,
                    \* buys sent, the parameters it was created from
    \* ---- one processBatch(transactions) call ----
    txs,            \* the BatchTransaction objects handed to processBatch
    run,            \* the call: where it stands, validTransactions, counters
    task,           \* per transaction: where its callback in
                    \* processTransactionBatch stands
    seen,           \* history per transaction: what getBalance returned
    attempts,       \* history per transaction: what was handed to
                    \* sendTransaction, in order, and how it came back
    input,          \* history: the transactions as the caller handed them
    \* ---- the services the orchestrator calls ----
    mev,            \* one protectTransaction call and the sendTransaction
                    \* that follows it in the orchestrator
    gas             \* GasOptimizer: gasConfig, gasPriceHistory and the last
                    \* call on it

batchVars  == <<now, batchCounter, batches, batchQueue, activeBatches,
                isProcessing, timers, dispatched, lateEnqueue>>
bundleVars == <<buyWallets, bundleCounter, activeBundles, bundleResults, calls, events,
                launchLog>>
txVars     == <<txs, run, task, seen, attempts, input>>
serviceVars == <<mev, gas>>
vars       == <<batchVars, bundleVars, txVars, serviceVars>>

----------------------------------------------------------------------------
(* Bounds of the model *)

MaxBatches == 2     \* queueBatch calls explored by Spec
MaxQueued  == 3     \* queueBatch calls explored by SpecQueue
MaxTxs     == 1     \* transactions per queued batch
MaxBundles == 1     \* createLaunchBundle calls explored
MaxCalls   == 2     \* executeLaunchBundle calls explored
MaxWallets == 1     \* buy wallets (bundlerConfig.maxWallets) explored

(* batchConfig.batchTimeout, in clock units (the default is 300000 ms) *)
BatchTimeout == 1

(* clock horizon: long enough for a queued batch to pass its deadline *)
MaxTime == BatchTimeout + 1

Priorities == {"LOW", "MEDIUM", "HIGH", "CRITICAL"}

(* Spec draws the priority of a batch from the default of queueBatch and   *)
(* one priority above it; SpecQueue draws it from all of Priorities        *)
SpecPriorities == {"MEDIUM", "HIGH"}

----------------------------------------------------------------------------
(* Helpers *)

SeqToSet(s) == {s[i] : i \in 1..Len(s)}

----------------------------------------------------------------------------
(* BatchProcessor: the priority queue *)

priorityOrder(p) ==
    CASE p = "CRITICAL" -> 4
      [] p = "HIGH"     -> 3
      [] p = "MEDIUM"   -> 2
      [] p = "LOW"      -> 1

(* the comparator handed to Array.prototype.sort in sortBatchQueue *)
compareBatchesAscending(a, b) ==
    IF priorityOrder(a.priority) # priorityOrder(b.priority)
    THEN priorityOrder(a.priority) - priorityOrder(b.priority)
    ELSE a.createdAt - b.createdAt
compareBatches(a, b) ==
    IF priorityOrder(a.priority) # priorityOrder(b.priority)
    THEN priorityOrder(b.priority) - priorityOrder(a.priority)
    ELSE a.createdAt - b.createdAt

(* Array.prototype.sort is stable: equal elements keep their order *)
RECURSIVE InsertSorted(_, _, _)
InsertSorted(s, x, bs) ==
    IF s = <<>> THEN <<x>>
    ELSE IF compareBatches(bs[Head(s)], bs[x]) <= 0
         THEN <<Head(s)>> \o InsertSorted(Tail(s), x, bs)
         ELSE <<x>> \o s

RECURSIVE StableSort(_, _)
StableSort(q, bs) ==
    IF q = <<>> THEN <<>>
    ELSE InsertSorted(StableSort(SubSeq(q, 1, Len(q) - 1), bs), q[Len(q)], bs)

sortBatchQueue(q, bs) == StableSort(q, bs)

(* startBatchProcessing: returns <<isProcessing', timers'>> *)
startBatchProcessing(flag, n) ==
    IF flag THEN <<flag, n>> ELSE <<TRUE, n + 1>>

(* queueBatch(transactions, priority) *)
queueBatch(nTx, priority) ==
    LET id    == batchCounter + 1
        batch == [priority  |-> priority,
                  createdAt |-> now,
                  timeout   |-> now + BatchTimeout,
                  status    |-> "QUEUED",
                  nTx       |-> nTx,
                  procId    |-> 0,
                  validated |-> 0,
                  submitted |-> 0]
        bs    == [b \in DOMAIN batches \cup {id} |->
                     IF b = id THEN batch ELSE batches[b]]
        st    == IF ~isProcessing
                 THEN startBatchProcessing(isProcessing, timers)
                 ELSE <<isProcessing, timers>>
    IN  /\ batchCounter' = id
        /\ batches' = bs
        /\ batchQueue' = sortBatchQueue(Append(batchQueue, id), bs)
        /\ isProcessing' = st[1]
        /\ timers' = st[2]
        /\ lateEnqueue' = (lateEnqueue \/ dispatched # <<>>)
        /\ UNCHANGED <<now, activeBatches, dispatched>>

QueueBatch ==
    /\ Cardinality(DOMAIN batches) < MaxBatches
    /\ \E p \in SpecPriorities : queueBatch(MaxTxs, p)

QueueBatchQ ==
    /\ Cardinality(DOMAIN batches) < MaxQueued
    /\ \E p \in Priorities : queueBatch(MaxTxs, p)

clearQueue ==
    /\ batchQueue' = <<>>
    /\ UNCHANGED <<now, batchCounter, batches, activeBatches,
                   isProcessing, timers, dispatched, lateEnqueue>>

stopProcessing ==
    /\ isProcessing' = FALSE
    /\ UNCHANGED <<now, batchCounter, batches, batchQueue,
                   activeBatches, timers, dispatched, lateEnqueue>>

----------------------------------------------------------------------------
(* BatchProcessor: the dispatcher *)

(* Array.prototype.shift: <<the element removed, the array left>> *)
popLast(q) == <<q[Len(q)], SubSeq(q, 1, Len(q) - 1)>>
shift(q) == <<Head(q), Tail(q)>>

(* processBatchQueue: the deadline test made on the batch just shifted *)
isExpiredInverted(batch, t) == t < batch.timeout
isExpired(batch, t) == t > batch.timeout

(* processBatchQueue, up to the first await inside processBatch: an empty   *)
(* queue returns; otherwise the head is shifted off and either marked       *)
(* TIMEOUT or marked PROCESSING and handed to processBatch, whose first     *)
(* statement, generateBatchId, increments batchCounter                      *)
processBatchQueue ==
    IF batchQueue = <<>>
    THEN UNCHANGED <<batchCounter, batches, batchQueue, dispatched>>
    ELSE LET b == shift(batchQueue)[1] IN
         /\ batchQueue' = shift(batchQueue)[2]
         /\ dispatched' = Append(dispatched, b)
         /\ IF isExpired(batches[b], now)
            THEN /\ batches' = [batches EXCEPT ![b].status = "TIMEOUT"]
                 /\ UNCHANGED batchCounter
            ELSE /\ batches' = [batches EXCEPT ![b].status = "PROCESSING",
                                                ![b].procId = batchCounter + 1]
                 /\ batchCounter' = batchCounter + 1

(* one firing of a setInterval timer of startBatchProcessing; the timers    *)
(* are never cleared and the callback does not look at isProcessing         *)
DispatcherTick ==
    /\ timers > 0
    /\ processBatchQueue
    /\ UNCHANGED <<now, activeBatches, isProcessing, timers, lateEnqueue>>

(* What happens to one transaction of a batch inside processBatch:          *)
(*   invalid  dropped by validateTransactions                               *)
(*   ok       its first executeTransaction succeeds                         *)
(*   failed   its first executeTransaction fails (whatever the attempt of    *)
(*            retryTransaction does afterwards does not reach the counters)  *)
Outcomes == {"invalid", "ok", "failed"}

Count(o, kinds) == Cardinality({i \in DOMAIN o : o[i] \in kinds})

(* validateTransactions: the transactions kept *)
NumValid(o) == Count(o, {"ok", "failed"})

(* processTransactionBatch: successfulTxs++ only where the first            *)
(* executeTransaction succeeds                                              *)
SuccessfulTxs(o) == Count(o, {"ok"})

(* processBatch: success: results.successfulTxs > 0 *)
batchSuccessAlways(successfulTxs) == successfulTxs >= 0
batchSuccess(successfulTxs) == successfulTxs > 0

(* processBatchQueue: batch.status = result.success ? 'COMPLETED' : 'FAILED' *)
batchStatusTimeout(success) == IF success THEN "COMPLETED" ELSE "TIMEOUT"
batchStatus(success) == IF success THEN "COMPLETED" ELSE "FAILED"

(* the rest of processBatch and of processBatchQueue for batch b, given the *)
(* outcome o of each of its transactions                                    *)
finishBatch(b, o) ==
    LET valid == NumValid(o)
        res   == [successfulTxs |-> SuccessfulTxs(o),
                  success       |-> batchSuccess(SuccessfulTxs(o))]
    IN  IF valid = 0
        THEN \* 'No valid transactions in batch' is thrown and caught
             /\ batches' = [batches EXCEPT ![b].status = "FAILED",
                                           ![b].validated = batches[b].nTx]
             /\ UNCHANGED activeBatches
        ELSE /\ activeBatches' =
                    [k \in DOMAIN activeBatches \cup {batches[b].procId} |->
                        IF k = batches[b].procId THEN res ELSE activeBatches[k]]
             /\ batches' = [batches EXCEPT ![b].status = batchStatus(res.success),
                                           ![b].validated = batches[b].nTx,
                                           ![b].submitted = valid]

FinishBatch ==
    \E b \in DOMAIN batches :
        /\ batches[b].status = "PROCESSING"
        /\ \E o \in [1..batches[b].nTx -> Outcomes] : finishBatch(b, o)
        /\ UNCHANGED <<now, batchCounter, batchQueue, isProcessing,
                       timers, dispatched, lateEnqueue>>

(* the clock moves on by one unit *)
AdvanceTime ==
    /\ now < MaxTime
    /\ now' = now + 1
    /\ UNCHANGED <<batchCounter, batches, batchQueue, activeBatches,
                   isProcessing, timers, dispatched, lateEnqueue>>

InitBatch ==
    /\ now = 0
    /\ batchCounter = 0
    /\ batches = <<>>
    /\ batchQueue = <<>>
    /\ activeBatches = <<>>
    /\ isProcessing = FALSE
    /\ timers = 0
    /\ dispatched = <<>>
    /\ lateEnqueue = FALSE

InitBundleIdle ==
    /\ buyWallets = 0
    /\ bundleCounter = 0
    /\ activeBundles = <<>>
    /\ bundleResults = <<>>
    /\ calls = <<>>
    /\ events = <<>>
    /\ launchLog = <<>>

(* no processBatch call is under way *)
InitTxIdle ==
    /\ txs = <<>>
    /\ input = <<>>
    /\ run = [pc |-> "none"]
    /\ task = <<>>
    /\ seen = <<>>
    /\ attempts = <<>>

(* no call on MEVProtection or GasOptimizer is under way *)
InitServicesIdle ==
    /\ mev = [pc |-> "none"]
    /\ gas = [pc |-> "none"]

Init == InitBatch /\ InitBundleIdle /\ InitTxIdle /\ InitServicesIdle

Next ==
    \/ QueueBatch /\ UNCHANGED <<bundleVars, txVars, serviceVars>>
    \/ clearQueue /\ UNCHANGED <<bundleVars, txVars, serviceVars>>
    \/ stopProcessing /\ UNCHANGED <<bundleVars, txVars, serviceVars>>
    \/ DispatcherTick /\ UNCHANGED <<bundleVars, txVars, serviceVars>>
    \/ FinishBatch /\ UNCHANGED <<bundleVars, txVars, serviceVars>>
    \/ AdvanceTime /\ UNCHANGED <<bundleVars, txVars, serviceVars>>

Spec == Init /\ [][Next]_vars

(* the queue alone: producers, the timer and clearQueue; no batch finishes *)
NextQueue ==
    \/ QueueBatchQ /\ UNCHANGED <<bundleVars, txVars, serviceVars>>
    \/ clearQueue /\ UNCHANGED <<bundleVars, txVars, serviceVars>>
    \/ DispatcherTick /\ UNCHANGED <<bundleVars, txVars, serviceVars>>
    \/ AdvanceTime /\ UNCHANGED <<bundleVars, txVars, serviceVars>>

SpecQueue == Init /\ [][NextQueue]_vars

----------------------------------------------------------------------------
(* FourMemeBundler *)

(* an id that names no stored bundle *)
UnknownBundle == 0

(* executeBuyTransactions: const batchSize = 10 *)
BuyBatchSize == 10

(* what sendTransaction does: it returns a response or it rejects *)
SendOutcomes == {"sent", "rejected"}

(* what response.wait() does: a receipt with status 1, a receipt with      *)
(* another status, or a rejection                                          *)
WaitOutcomes == {"success", "reverted", "error"}

SetKey(f, k, v) == [x \in DOMAIN f \cup {k} |-> IF x = k THEN v ELSE f[x]]

(* TokenLaunchParams, as far as calculateTokenAddress reads them; salt is   *)
(* optional, and an absent or empty salt is NoSalt                          *)
NoSalt == ""
LaunchParams == [symbol : {"AAA", "BBB"}, liquidityBNB : {1}, salt : {NoSalt, "s"}]
DefaultParams == [symbol |-> "AAA", liquidityBNB |-> 1, salt |-> NoSalt]

(* ethers.parseEther('0.01'), in units of 0.01 BNB *)
BuyAmount == 1

(* calculateTokenAddress: getCreate2Address(factory, salt, initCode), with  *)
(* salt = tokenParams.salt || keccak256(symbol + Date.now()); a hash is     *)
(* written as the tuple of what is hashed                                   *)
calculateTokenAddress(tokenParams, time) ==
    [factory  |-> "FOUR_MEME_FACTORY",
     salt     |-> IF tokenParams.salt # NoSalt
                  THEN <<"given", tokenParams.salt, 0>>
                  ELSE <<"keccak256", tokenParams.symbol, time>>,
     initCode |-> [symbol       |-> tokenParams.symbol,
                   liquidityBNB |-> tokenParams.liquidityBNB]]

(* createBuyTransactions: one request per buy wallet *)
createBuyTransactionsButLast(tokenAddress, wallets) ==
    [i \in 1..(wallets - 1) |-> [to |-> tokenAddress, value |-> BuyAmount]]
createBuyTransactions(tokenAddress, wallets) ==
    [i \in 1..wallets |-> [to |-> tokenAddress, value |-> BuyAmount]]

(* prepareWalletConfigs: one configuration per buy wallet, in the order of  *)
(* buyWallets; wallet i has address i                                       *)
prepareWalletConfigs(wallets) ==
    [i \in 1..wallets |-> [address |-> i, buyAmount |-> BuyAmount]]

(* createLaunchBundle, up to activeBundles.set *)
createLaunchBundle(tokenParams) ==
    LET tokenAddress == calculateTokenAddress(tokenParams, now)
        id           == bundleCounter + 1
    IN  /\ bundleCounter' = id
        /\ activeBundles' = SetKey(activeBundles, id,
               [status       |-> "PENDING",
                buyTxs       |-> createBuyTransactions(tokenAddress, buyWallets),
                wallets      |-> prepareWalletConfigs(buyWallets),
                tokenAddress |-> tokenAddress])
        /\ launchLog' = SetKey(launchLog, id,
               [launches |-> 0, confirmed |-> 0, buys |-> 0,
                params |-> tokenParams])
        /\ UNCHANGED <<buyWallets, bundleResults, calls, events>>

(* one createLaunchBundle call of the execution model *)
CreateLaunchBundle ==
    /\ bundleCounter < MaxBundles
    /\ createLaunchBundle(DefaultParams)

(* createFailedResult *)
createFailedResult(bundleId) ==
    [bundleId |-> bundleId, success |-> FALSE, launchSuccess |-> FALSE,
     buySuccess |-> FALSE, totalBuys |-> 0, successfulBuys |-> 0,
     failedBuys |-> 0, error |-> "Launch transaction failed"]

(* the result built in the catch block of executeLaunchBundle *)
caughtResultSucceeding(bundleId, message) ==
    [bundleId |-> bundleId, success |-> TRUE, launchSuccess |-> FALSE,
     buySuccess |-> FALSE, totalBuys |-> 0, successfulBuys |-> 0,
     failedBuys |-> 0, error |-> message]
caughtResult(bundleId, message) ==
    [bundleId |-> bundleId, success |-> FALSE, launchSuccess |-> FALSE,
     buySuccess |-> FALSE, totalBuys |-> 0, successfulBuys |-> 0,
     failedBuys |-> 0, error |-> message]

(* bundle.status = status, on the object activeBundles holds *)
setStatusOrEvict(bundleId, status) ==
    IF status = "FAILED"
    THEN [x \in DOMAIN activeBundles \ {bundleId} |-> activeBundles[x]]
    ELSE [activeBundles EXCEPT ![bundleId].status = status]
setStatus(bundleId, status) ==
    [activeBundles EXCEPT ![bundleId].status = status]

NewCall(bundleId, pc, ret) ==
    [bundleId |-> bundleId, pc |-> pc, launch |-> "pending", buys |-> <<>>,
     successfulBuys |-> 0, failedBuys |-> 0, ret |-> ret]

(* executeLaunchBundle, up to the first await of executeLaunchTransaction: *)
(* an unknown id throws into the catch block; a stored bundle is set to    *)
(* LAUNCHING whatever its status is                                        *)
executeLaunchBundle(bundleId) ==
    /\ Len(calls) < MaxCalls
    /\ IF bundleId \notin DOMAIN activeBundles
       THEN LET r == caughtResult(bundleId, "not found") IN
            /\ bundleResults' = SetKey(bundleResults, bundleId, r)
            /\ calls' = Append(calls, NewCall(bundleId, "done", <<r>>))
            /\ UNCHANGED activeBundles
       ELSE /\ activeBundles' = setStatus(bundleId, "LAUNCHING")
            /\ calls' = Append(calls, NewCall(bundleId, "launch", <<>>))
            /\ UNCHANGED bundleResults
    /\ UNCHANGED <<buyWallets, bundleCounter, events, launchLog>>

ExecuteLaunchBundle ==
    \E id \in DOMAIN activeBundles \cup {UnknownBundle} :
        executeLaunchBundle(id)

(* executeLaunchTransaction: receipt.status === 1 *)
launchSucceededUnlessError(w) == w # "error"
launchSucceeded(w) == w = "success"

(* executeLaunchBundle: the status set once executeLaunchTransaction has   *)
(* returned launchResult                                                   *)
statusAfterLaunchKeep(success) == IF success THEN "BUYING" ELSE "LAUNCHING"
statusAfterLaunch(success) == IF success THEN "BUYING" ELSE "FAILED"

(* executeLaunchBundle from the return of executeLaunchTransaction to the  *)
(* next await: a failed launch returns createFailedResult; a confirmed one *)
(* enters BUYING and starts executeBuyTransactions                         *)
(* (launch records what the network did with the launch of this call)     *)
afterLaunch(c, success, launch) ==
    LET b == calls[c].bundleId IN
    /\ activeBundles' = setStatus(b, statusAfterLaunch(success))
    /\ IF success
       THEN calls' = [calls EXCEPT
                        ![c].pc = "buying",
                        ![c].launch = launch,
                        ![c].buys =
                            [i \in DOMAIN activeBundles[b].buyTxs |-> "todo"]]
       ELSE calls' = [calls EXCEPT
                        ![c].pc = "done",
                        ![c].launch = launch,
                        ![c].ret = <<createFailedResult(b)>>]

(* executeLaunchTransaction: protectTransaction, then sendTransaction *)
LaunchSend ==
    \E c \in DOMAIN calls, o \in SendOutcomes :
        /\ calls[c].pc = "launch"
        /\ IF o = "sent"
           THEN /\ calls' = [calls EXCEPT ![c].pc = "launch_wait"]
                /\ launchLog' = [launchLog EXCEPT
                      ![calls[c].bundleId].launches = @ + 1]
                /\ UNCHANGED activeBundles
           ELSE /\ afterLaunch(c, FALSE, "failed")
                /\ UNCHANGED launchLog
        /\ UNCHANGED <<buyWallets, bundleCounter, bundleResults, events>>

(* executeLaunchTransaction: tx.wait() and the test of the receipt *)
LaunchReceipt ==
    \E c \in DOMAIN calls, w \in WaitOutcomes :
        /\ calls[c].pc = "launch_wait"
        /\ afterLaunch(c, launchSucceeded(w),
                       IF w = "success" THEN "confirmed" ELSE "failed")
        /\ launchLog' = [launchLog EXCEPT
              ![calls[c].bundleId].confirmed =
                  IF w = "success" THEN @ + 1 ELSE @]
        /\ UNCHANGED <<buyWallets, bundleCounter, bundleResults, events>>

Settled(st) == st \in {"ok", "failed"}

(* executeBuyTransactions: the group of buy i runs once every earlier      *)
(* group has settled (Promise.allSettled, then the next slice)             *)
GroupOpen(buys, i) ==
    \A j \in 1..(((i - 1) \div BuyBatchSize) * BuyBatchSize) : Settled(buys[j])

(* executeBuyTransactions, one task: protectTransaction, sendTransaction *)
BuySend ==
    \E c \in DOMAIN calls, o \in SendOutcomes :
        /\ calls[c].pc = "buying"
        /\ \E i \in DOMAIN calls[c].buys :
              /\ calls[c].buys[i] = "todo"
              /\ GroupOpen(calls[c].buys, i)
              /\ IF o = "sent"
                 THEN /\ calls' = [calls EXCEPT ![c].buys[i] = "sent"]
                      /\ launchLog' = [launchLog EXCEPT
                            ![calls[c].bundleId].buys = @ + 1]
                 ELSE /\ calls' = [calls EXCEPT ![c].buys[i] = "failed",
                                                ![c].failedBuys = @ + 1]
                      /\ UNCHANGED launchLog
        /\ UNCHANGED <<buyWallets, bundleCounter, activeBundles,
                       bundleResults, events>>

(* executeBuyTransactions, one task: receipt.status === 1 *)
buySucceeded(w) == w = "success"

(* executeBuyTransactions, one task: tx.wait() and the counters *)
BuyReceipt ==
    \E c \in DOMAIN calls, w \in WaitOutcomes :
        /\ calls[c].pc = "buying"
        /\ \E i \in DOMAIN calls[c].buys :
              /\ calls[c].buys[i] = "sent"
              /\ IF buySucceeded(w)
                 THEN calls' = [calls EXCEPT ![c].buys[i] = "ok",
                                             ![c].successfulBuys = @ + 1]
                 ELSE calls' = [calls EXCEPT ![c].buys[i] = "failed",
                                             ![c].failedBuys = @ + 1]
        /\ UNCHANGED <<buyWallets, bundleCounter, activeBundles,
                       bundleResults, events, launchLog>>

(* executeBuyTransactions: success: successfulBuys > 0 *)
buySuccessNonNegative(successfulBuys) == successfulBuys >= 0
buySuccess(successfulBuys) == successfulBuys > 0

(* executeLaunchBundle: bundle.status = success ? 'COMPLETED' : 'FAILED' *)
bundleStatus(success) == IF success THEN "COMPLETED" ELSE "FAILED"

(* executeLaunchBundle from the return of executeBuyTransactions: the      *)
(* result is built and stored, the status set, the event emitted; a        *)
(* listener that throws makes emit throw into the catch block              *)
finishBundle(c, listenerThrows) ==
    LET b   == calls[c].bundleId
        ok  == buySuccess(calls[c].successfulBuys)
        res == [bundleId |-> b, success |-> (TRUE /\ ok),
                launchSuccess |-> TRUE, buySuccess |-> ok,
                totalBuys |-> Len(activeBundles[b].buyTxs),
                successfulBuys |-> calls[c].successfulBuys,
                failedBuys |-> calls[c].failedBuys, error |-> "none"]
        err == caughtResult(b, "listener")
    IN  /\ activeBundles' = setStatus(b, bundleStatus(res.success))
        /\ events' = Append(events, res)
        /\ IF listenerThrows
           THEN /\ bundleResults' = SetKey(bundleResults, b, err)
                /\ calls' = [calls EXCEPT ![c].pc = "done", ![c].ret = <<err>>]
           ELSE /\ bundleResults' = SetKey(bundleResults, b, res)
                /\ calls' = [calls EXCEPT ![c].pc = "done", ![c].ret = <<res>>]

BuyFinish ==
    \E c \in DOMAIN calls, listenerThrows \in BOOLEAN :
        /\ calls[c].pc = "buying"
        /\ \A i \in DOMAIN calls[c].buys : Settled(calls[c].buys[i])
        /\ finishBundle(c, listenerThrows)
        /\ UNCHANGED <<buyWallets, bundleCounter, launchLog>>

InitBundle ==
    /\ buyWallets \in 0..MaxWallets
    /\ bundleCounter = 0
    /\ activeBundles = <<>>
    /\ bundleResults = <<>>
    /\ calls = <<>>
    /\ events = <<>>
    /\ launchLog = <<>>

NextBundler ==
    \/ CreateLaunchBundle /\ UNCHANGED <<batchVars, txVars, serviceVars>>
    \/ ExecuteLaunchBundle /\ UNCHANGED <<batchVars, txVars, serviceVars>>
    \/ LaunchSend /\ UNCHANGED <<batchVars, txVars, serviceVars>>
    \/ LaunchReceipt /\ UNCHANGED <<batchVars, txVars, serviceVars>>
    \/ BuySend /\ UNCHANGED <<batchVars, txVars, serviceVars>>
    \/ BuyReceipt /\ UNCHANGED <<batchVars, txVars, serviceVars>>
    \/ BuyFinish /\ UNCHANGED <<batchVars, txVars, serviceVars>>

InitBundler == InitBatch /\ InitBundle /\ InitTxIdle /\ InitServicesIdle

SpecBundler == InitBundler /\ [][NextBundler]_vars

----------------------------------------------------------------------------
(* createLaunchBundle over several launch parameters and moments *)

MaxCreated == 2     \* createLaunchBundle calls explored by SpecCreate

CreateAnyLaunchBundle ==
    /\ bundleCounter < MaxCreated
    /\ \E tokenParams \in LaunchParams : createLaunchBundle(tokenParams)

NextCreate ==
    \/ CreateAnyLaunchBundle /\ UNCHANGED <<batchVars, txVars, serviceVars>>
    \/ AdvanceTime /\ UNCHANGED <<bundleVars, txVars, serviceVars>>

SpecCreate == InitBundler /\ [][NextCreate]_vars

----------------------------------------------------------------------------
(* BatchProcessor.processBatch, transaction by transaction *)

MaxRunTxs == 2      \* transactions handed to one processBatch call

(* batchConfig: maxBatchSize, parallelBatches, retryAttempts (the defaults *)
(* are 10, 3 and 3)                                                        *)
MaxBatchSize    == 2
ParallelBatches == 1
RetryAttempts   == 1

(* batchConfig.gasPriceIncrement and priorityFeeIncrement, both 1.1 by     *)
(* default, as <<numerator, denominator>>                                  *)
GasPriceIncrement    == <<11, 10>>
PriorityFeeIncrement == <<11, 10>>

(* validateTransactions: tx.transaction.gasLimit || 200000 *)
DefaultGasLimit == 200000

(* what getTransactionCount(address, 'pending') returns while              *)
(* validateTransactions runs: no transaction of the call has been          *)
(* submitted yet, so every read for one signer returns the same count      *)
ChainNonce == 3

Signers  == {1, 2}
NoWallet == 0       \* tx.wallet is missing

(* a field of tx.transaction that is not set (undefined, or 0: the source  *)
(* tests both with ||) and a BatchTransaction.nonce that is not assigned   *)
Unset == 0

TxStatus == {"PENDING", "SENT", "CONFIRMED", "FAILED", "RETRY"}

(* the BatchTransaction objects a caller hands to processBatch *)
NewTx(to, wallet, gasLimit, value, nonce, fee, retryCount) ==
    [to |-> to, wallet |-> wallet, gasLimit |-> gasLimit, value |-> value,
     nonce |-> nonce, gasPrice |-> fee[1], priorityFee |-> fee[2],
     status |-> "PENDING", retryCount |-> retryCount]

(* <<gasPrice, priorityFee>> of an incoming transaction *)
Fees == {<<5, 10>>, <<10, 5>>}

(* transactions that differ in what processTransactionBatch,               *)
(* executeTransaction and retryTransaction look at; each has a destination *)
(* and a wallet, and no nonce yet                                          *)
TxInputs ==
    {NewTx(TRUE, w, Unset, Unset, Unset, fee, rc) :
        w \in Signers, fee \in Fees, rc \in 0..RetryAttempts}

(* transactions that differ in what validateTransactions looks at; none    *)
(* has been retried                                                        *)
ValidateInputs ==
    {NewTx(to, w, gl, v, n, <<5, 10>>, 0) :
        to \in BOOLEAN, w \in {NoWallet, 1}, gl \in {Unset, 3},
        v \in {Unset, 1}, n \in {Unset, 5}}

(* the call before it starts; batchSize and parallelBatches are the locals *)
(* processTransactionsInBatches reads from batchConfig, cfg being          *)
(* <<maxBatchSize, parallelBatches>>                                       *)
IdleRun(cfg) ==
    [pc |-> "idle", batchId |-> 0, next |-> 1, valid |-> <<>>, from |-> 0,
     subs |-> <<>>, successfulTxs |-> 0, failedTxs |-> 0, faults |-> <<>>,
     batchSize |-> cfg[1], parallelBatches |-> cfg[2]]

NoTask == [phase |-> "none", retry |-> FALSE]
NoRead == [balance |-> "none", amount |-> 0, nonce |-> "none"]

(* validateTransactions: gasCost + (tx.transaction.value || BigInt(0)) *)
gasLimitOf(tx) == IF tx.gasLimit = Unset THEN DefaultGasLimit ELSE tx.gasLimit
gasCost(tx) == tx.gasPrice * gasLimitOf(tx)
required(tx) == gasCost(tx) + tx.value

(* validateTransactions: the balance test, balance < gasCost + value drops *)
sufficientStrictly(balance, tx) == balance > required(tx)
sufficient(balance, tx) == ~(balance < required(tx))

(* what getBalance reports for the signer of tx: one unit less than the    *)
(* transaction needs, or exactly what it needs                              *)
Balances(tx) == {required(tx) - 1, required(tx)}

(* what a provider read does: it returns or it rejects *)
ReadOutcomes == {"ok", "error"}

getTransactionCount(signer) == ChainNonce

(* processBatch(transactions), up to the first await of                    *)
(* validateTransactions: generateBatchId                                   *)
processBatch ==
    /\ run.pc = "idle"
    /\ batchCounter' = batchCounter + 1
    /\ run' = [run EXCEPT !.pc = "validate", !.batchId = batchCounter + 1]
    /\ UNCHANGED <<txs, task, seen, attempts, input>>
    /\ UNCHANGED <<now, batches, batchQueue, activeBatches, isProcessing,
                   timers, dispatched, lateEnqueue>>

(* processBatch once validateTransactions has returned validTransactions:  *)
(* an empty list throws 'No valid transactions in batch'                   *)
afterValidate(r, valid) ==
    IF valid = <<>>
    THEN [r EXCEPT !.pc = "thrown", !.valid = valid]
    ELSE [r EXCEPT !.pc = "group", !.valid = valid]

(* the loop of validateTransactions has handled transaction i: keep tells  *)
(* whether it was pushed onto validTransactions                            *)
validated(i, keep) ==
    LET valid == IF keep THEN Append(run.valid, i) ELSE run.valid IN
    run' = IF i = Len(txs)
           THEN afterValidate(run, valid)
           ELSE [run EXCEPT !.next = i + 1, !.valid = valid]

(* validateTransactions, one turn of its loop for transaction i *)
validateTransaction(i) ==
    LET tx == txs[i] IN
    IF ~tx.to \/ tx.wallet = NoWallet
    THEN /\ validated(i, FALSE)
         /\ UNCHANGED <<txs, seen>>
    ELSE \E b \in ReadOutcomes, amount \in Balances(tx), c \in ReadOutcomes :
           IF b = "error"
           THEN /\ seen' = [seen EXCEPT ![i].balance = "error"]
                /\ validated(i, FALSE)
                /\ UNCHANGED txs
           ELSE IF ~sufficient(amount, tx)
           THEN /\ seen' = [seen EXCEPT ![i].balance = "ok",
                                        ![i].amount = amount]
                /\ validated(i, FALSE)
                /\ UNCHANGED txs
           ELSE IF tx.nonce # Unset
           THEN /\ seen' = [seen EXCEPT ![i].balance = "ok",
                                        ![i].amount = amount]
                /\ validated(i, TRUE)
                /\ UNCHANGED txs
           ELSE /\ seen' = [seen EXCEPT ![i].balance = "ok",
                                        ![i].amount = amount,
                                        ![i].nonce = c]
                /\ validated(i, c = "ok")
                /\ txs' = IF c = "ok"
                          THEN [txs EXCEPT ![i].nonce =
                                   getTransactionCount(tx.wallet)]
                          ELSE txs

ValidateTransaction ==
    /\ run.pc = "validate"
    /\ validateTransaction(run.next)
    /\ UNCHANGED <<task, attempts, input>>
    /\ UNCHANGED batchVars

Min(a, b) == IF a < b THEN a ELSE b

RECURSIVE Sum(_, _)
Sum(f, S) ==
    IF S = {} THEN 0
    ELSE LET x == CHOOSE y \in S : TRUE IN f[x] + Sum(f, S \ {x})

(* processTransactionsInBatches: the positions in validTransactions of the *)
(* group that starts after position from (slice(i, i + batchSize *         *)
(* parallelBatches)) and of its k-th batch (slice(j, j + batchSize))       *)
GroupEndAll(from, n) == n
GroupEndStuck(from, n) == from
GroupEnd(from, n) == Min(from + run.batchSize * run.parallelBatches, n)
GroupPositions(from, n) == (from + 1)..GroupEnd(from, n)
NumSubs(from, n) ==
    (GroupEnd(from, n) - from + run.batchSize - 1) \div run.batchSize
SubPositions(from, n, k) ==
    (from + (k - 1) * run.batchSize + 1)
        ..Min(from + k * run.batchSize, GroupEnd(from, n))

(* the batch of the current group that holds transaction i *)
PosOf(i) == CHOOSE p \in 1..Len(run.valid) : run.valid[p] = i
SubOf(i) == ((PosOf(i) - run.from - 1) \div run.batchSize) + 1

(* executeTransaction, up to the await of sendTransaction: what is handed  *)
(* to the wallet (gasPrice, maxPriorityFeePerGas and nonce of the object)  *)
submission(tx) ==
    [nonce |-> tx.nonce, gasPrice |-> tx.gasPrice,
     priorityFee |-> tx.priorityFee, result |-> "pending"]

(* processTransactionsInBatches, one turn of its outer loop up to          *)
(* Promise.allSettled: every batch of the group is started, and map calls  *)
(* executeTransaction for every transaction of every batch                 *)
GroupStart ==
    /\ run.pc = "group"
    /\ LET n  == Len(run.valid)
           in == {run.valid[p] : p \in GroupPositions(run.from, n)}
       IN  /\ run' = [run EXCEPT
                        !.pc = "settle",
                        !.subs = [k \in 1..NumSubs(run.from, n) |->
                                     [successfulTxs |-> 0, failedTxs |-> 0]]]
           /\ task' = [i \in DOMAIN task |->
                         IF i \in in THEN [phase |-> "send", retry |-> FALSE]
                         ELSE task[i]]
           /\ attempts' = [i \in DOMAIN attempts |->
                             IF i \in in
                             THEN Append(attempts[i], submission(txs[i]))
                             ELSE attempts[i]]
    /\ UNCHANGED <<txs, seen, input>>
    /\ UNCHANGED batchVars

(* retryTransaction: BigInt(Math.floor(Number(fee) * increment)) *)
escalateDown(fee, inc) == (fee * inc[2]) \div inc[1]
escalateNot(fee, inc) == fee
escalate(fee, inc) == (fee * inc[1]) \div inc[2]

(* processTransactionBatch: if (tx.retryCount < retryAttempts) *)
mayRetryOrEqual(tx) == tx.retryCount <= RetryAttempts
mayRetry(tx) == tx.retryCount < RetryAttempts

(* the attempt under way of transaction i has come back *)
resolved(i, result) ==
    attempts' = [attempts EXCEPT ![i][Len(attempts[i])].result = result]

(* executeTransaction returned success for transaction i: in               *)
(* processTransactionBatch successfulTxs++ and CONFIRMED; in               *)
(* retryTransaction CONFIRMED                                              *)
succeeded(i) ==
    /\ txs' = [txs EXCEPT ![i].status = "CONFIRMED"]
    /\ task' = [task EXCEPT ![i].phase = "done"]
    /\ run' = IF task[i].retry THEN run
              ELSE [run EXCEPT !.subs[SubOf(i)].successfulTxs = @ + 1]
    /\ resolved(i, "success")

(* executeTransaction returned success: false for transaction i: in        *)
(* processTransactionBatch failedTxs++, FAILED and, if retries are left,   *)
(* retryTransaction up to its delay (retryCount++, RETRY, the fees         *)
(* raised); in retryTransaction FAILED                                     *)
failed(i) ==
    /\ resolved(i, "failed")
    /\ IF task[i].retry
       THEN /\ txs' = [txs EXCEPT ![i].status = "FAILED"]
            /\ task' = [task EXCEPT ![i].phase = "done"]
            /\ UNCHANGED run
       ELSE /\ run' = [run EXCEPT !.subs[SubOf(i)].failedTxs = @ + 1]
            /\ IF mayRetry(txs[i])
               THEN /\ txs' = [txs EXCEPT
                          ![i].retryCount = @ + 1,
                          ![i].status = "RETRY",
                          ![i].gasPrice = escalate(@, GasPriceIncrement),
                          ![i].priorityFee = escalate(@, PriorityFeeIncrement)]
                    /\ task' = [task EXCEPT ![i].phase = "delay",
                                            ![i].retry = TRUE]
               ELSE /\ txs' = [txs EXCEPT ![i].status = "FAILED"]
                    /\ task' = [task EXCEPT ![i].phase = "done"]

(* executeTransaction: sendTransaction returns a response or rejects *)
TxSend ==
    /\ \E i \in DOMAIN task, o \in SendOutcomes :
          /\ task[i].phase = "send"
          /\ IF o = "sent"
             THEN /\ txs' = [txs EXCEPT ![i].status = "SENT"]
                  /\ task' = [task EXCEPT ![i].phase = "wait"]
                  /\ UNCHANGED <<run, attempts>>
             ELSE failed(i)
    /\ UNCHANGED <<seen, input>>
    /\ UNCHANGED batchVars

(* executeTransaction: receipt.status === 1 *)
txSucceeded(w) == w = "success"

(* executeTransaction: response.wait() returns a receipt or rejects *)
TxReceipt ==
    /\ \E i \in DOMAIN task, w \in WaitOutcomes :
          /\ task[i].phase = "wait"
          /\ IF txSucceeded(w) THEN succeeded(i) ELSE failed(i)
    /\ UNCHANGED <<seen, input>>
    /\ UNCHANGED batchVars

(* retryTransaction: the retryDelay is over and executeTransaction is      *)
(* called again                                                            *)
TxRetry ==
    /\ \E i \in DOMAIN task :
          /\ task[i].phase = "delay"
          /\ task' = [task EXCEPT ![i].phase = "send"]
          /\ attempts' = [attempts EXCEPT
                            ![i] = Append(@, submission(txs[i]))]
    /\ UNCHANGED <<txs, run, seen, input>>
    /\ UNCHANGED batchVars

(* processTransactionsInBatches: what a rejected batch adds to failedTxs   *)
(* (failedTxs += batchSize)                                                *)
failedOnThrow(batchSize, batchLength) == batchSize

(* processTransactionsInBatches from Promise.allSettled to the end of the  *)
(* turn of the outer loop: the counters of the fulfilled batches are       *)
(* added, a rejected batch adds failedOnThrow; then the next group, or the *)
(* return into processBatch, which builds the result and stores it.        *)
(* rejected holds the batches whose processTransactionBatch threw after    *)
(* its transactions had settled.                                           *)
groupSettle(rejected) ==
    LET n    == Len(run.valid)
        all  == 1..Len(run.subs)
        ok   == all \ rejected
        size == [k \in all |->
                    Cardinality(SubPositions(run.from, n, k))]
        s    == run.successfulTxs
                  + Sum([k \in all |-> run.subs[k].successfulTxs], ok)
        f    == run.failedTxs
                  + Sum([k \in all |-> run.subs[k].failedTxs], ok)
                  + Sum([k \in all |-> failedOnThrow(run.batchSize, size[k])],
                        rejected)
        flt  == [k \in 1..Cardinality(rejected) |->
                    LET b == CHOOSE x \in rejected :
                               Cardinality({y \in rejected : y < x}) = k - 1
                    IN  [size  |-> size[b],
                         added |-> failedOnThrow(run.batchSize, size[b])]]
        end  == GroupEnd(run.from, n)
        last == ~(end < n)
    IN  /\ run' = [run EXCEPT !.pc = IF last THEN "returned" ELSE "group",
                              !.from = end,
                              !.subs = <<>>,
                              !.successfulTxs = s,
                              !.failedTxs = f,
                              !.faults = @ \o flt]
        /\ activeBatches' =
              IF last
              THEN SetKey(activeBatches, run.batchId,
                          [successfulTxs |-> s, success |-> batchSuccess(s)])
              ELSE activeBatches

(* await Promise.allSettled(promises) in processTransactionBatch, under    *)
(* await Promise.allSettled(batches): every callback of the group is over  *)
allSettledFirst(positions) ==
    \E p \in positions : task[run.valid[p]].phase = "done"
allSettled(positions) ==
    \A p \in positions : task[run.valid[p]].phase = "done"

GroupSettle ==
    /\ run.pc = "settle"
    /\ allSettled(GroupPositions(run.from, Len(run.valid)))
    /\ \E rejected \in SUBSET (1..Len(run.subs)) : groupSettle(rejected)
    /\ UNCHANGED <<txs, task, seen, attempts, input>>
    /\ UNCHANGED <<now, batchCounter, batches, batchQueue, isProcessing,
                   timers, dispatched, lateEnqueue>>

(* a caller holds transactions and has not called processBatch yet; the   *)
(* processor was built with one of the batch configurations of configs    *)
InitRun(inputs, configs) ==
    /\ txs \in [1..MaxRunTxs -> inputs]
    /\ input = txs
    /\ \E cfg \in configs : run = IdleRun(cfg)
    /\ task = [i \in 1..MaxRunTxs |-> NoTask]
    /\ seen = [i \in 1..MaxRunTxs |-> NoRead]
    /\ attempts = [i \in 1..MaxRunTxs |-> <<>>]
    /\ InitServicesIdle

InitTx ==
    InitBatch /\ InitBundleIdle
    /\ InitRun(TxInputs, {<<MaxBatchSize, ParallelBatches>>})

NextTx ==
    \/ processBatch /\ UNCHANGED <<bundleVars, serviceVars>>
    \/ ValidateTransaction /\ UNCHANGED <<bundleVars, serviceVars>>
    \/ GroupStart /\ UNCHANGED <<bundleVars, serviceVars>>
    \/ TxSend /\ UNCHANGED <<bundleVars, serviceVars>>
    \/ TxReceipt /\ UNCHANGED <<bundleVars, serviceVars>>
    \/ TxRetry /\ UNCHANGED <<bundleVars, serviceVars>>
    \/ GroupSettle /\ UNCHANGED <<bundleVars, serviceVars>>

SpecTx == InitTx /\ [][NextTx]_vars

InitValidate ==
    InitBatch /\ InitBundleIdle
    /\ InitRun(ValidateInputs, {<<MaxBatchSize, ParallelBatches>>})

SpecValidate == InitValidate /\ [][NextTx]_vars

(* processors whose batches hold one transaction, with one and with two    *)
(* batches to a group, so that a call has more than one group or more than *)
(* one batch in a group; the transactions have one signer and sufficient   *)
(* or insufficient retries left                                            *)
BatchConfigs == {<<1, 1>>, <<1, 2>>}

InitWaves ==
    InitBatch /\ InitBundleIdle
    /\ InitRun({NewTx(TRUE, 1, Unset, Unset, Unset, <<5, 10>>, rc) :
                    rc \in 0..RetryAttempts}, BatchConfigs)

SpecWaves == InitWaves /\ [][NextTx]_vars

----------------------------------------------------------------------------
(* MEVProtection.protectTransaction and the sendTransaction that follows   *)
(* it in executeLaunchTransaction and in the buy callback of               *)
(* executeBuyTransactions.  Fees are in units of 10^8 wei (a tenth of a    *)
(* gwei), values in ether.                                                 *)

(* an ethers.TransactionRequest, by the fields the transform reads or      *)
(* writes                                                                  *)
TxRequest(to, value, gasPrice) ==
    [to |-> to, value |-> value, gasPrice |-> gasPrice,
     maxFeePerGas |-> Unset, maxPriorityFeePerGas |-> Unset]

(* requests with and without a destination, worth nothing and 2 ether,     *)
(* with no gas price, one below and one above the network's                *)
MevRequests ==
    {TxRequest(to, v, g) : to \in BOOLEAN, v \in {Unset, 2}, g \in {Unset, 30, 80}}

(* what provider.getFeeData() returns when it returns: 5 gwei and 1 gwei *)
NetworkFee == [gasPrice |-> 50, maxPriorityFeePerGas |-> 10]

(* createBasicProtection: the transaction itself, 5 gwei and 1 gwei as     *)
(* estimates beside it                                                     *)
createBasicProtectionPriced(transaction) ==
    [transaction |-> [transaction EXCEPT !.gasPrice = 50],
     protectionLevel |-> "LOW",
     estimatedGasPrice |-> 50, priorityFee |-> 10, nonce |-> 0]
createBasicProtection(transaction) ==
    [transaction |-> transaction, protectionLevel |-> "LOW",
     estimatedGasPrice |-> 50, priorityFee |-> 10, nonce |-> 0]

(* getDefaultAnalysis; the risks are in tenths *)
getDefaultAnalysis ==
    [riskLevel |-> "LOW", frontrunRisk |-> 0, sandwichRisk |-> 0,
     arbitrageRisk |-> 0, recommendedGasPrice |-> 50,
     recommendedPriorityFee |-> 10]

(* getRecommendedGasPrice and getRecommendedPriorityFee: the multipliers   *)
(* of the risk levels, in tenths                                           *)
riskMultiplier ==
    [CRITICAL |-> <<15, 20>>, HIGH |-> <<13, 15>>, MEDIUM |-> <<11, 12>>,
     LOW |-> <<10, 10>>]

(* analyzeMEVRisk when getCode and getFeeData return: dex is the outcome   *)
(* of isDEXInteraction on the code read; feeFails tells that the getFeeData *)
(* calls of getRecommendedGasPrice and getRecommendedPriorityFee reject,   *)
(* which makes them return 5 gwei and 1 gwei                               *)
analyzeMEVRisk(transaction, dex, feeFails) ==
    LET frontrunRisk ==
            (IF dex THEN 3 ELSE 0)
            + (IF transaction.value > 1 THEN 2 ELSE 0)
            + (IF transaction.gasPrice # Unset
                  /\ transaction.gasPrice < NetworkFee.gasPrice
               THEN 3 ELSE 0)
        sandwichRisk  == IF dex THEN 4 ELSE 0
        arbitrageRisk == IF dex THEN 2 ELSE 0
        totalRisk == frontrunRisk + sandwichRisk + arbitrageRisk
        riskLevel == IF totalRisk > 7 THEN "CRITICAL"
                     ELSE IF totalRisk > 5 THEN "HIGH"
                     ELSE IF totalRisk > 3 THEN "MEDIUM"
                     ELSE "LOW"
    IN  [riskLevel |-> riskLevel, frontrunRisk |-> frontrunRisk,
         sandwichRisk |-> sandwichRisk, arbitrageRisk |-> arbitrageRisk,
         recommendedGasPrice |->
             IF feeFails THEN 50
             ELSE (NetworkFee.gasPrice * riskMultiplier[riskLevel][1]) \div 10,
         recommendedPriorityFee |->
             IF feeFails THEN 10
             ELSE (NetworkFee.maxPriorityFeePerGas
                      * riskMultiplier[riskLevel][2]) \div 10]

(* applyProtection when getTransactionCount returns: a copy of the         *)
(* transaction, with the recommended fees written into it at HIGH and      *)
(* CRITICAL risk                                                           *)
applyProtection(transaction, analysis) ==
    [transaction |->
         IF analysis.riskLevel \in {"HIGH", "CRITICAL"}
         THEN [transaction EXCEPT
                 !.gasPrice = analysis.recommendedGasPrice,
                 !.maxFeePerGas = analysis.recommendedGasPrice,
                 !.maxPriorityFeePerGas = analysis.recommendedPriorityFee]
         ELSE transaction,
     protectionLevel |-> IF analysis.riskLevel = "CRITICAL" THEN "MAXIMUM"
                         ELSE analysis.riskLevel,
     estimatedGasPrice |-> analysis.recommendedGasPrice,
     priorityFee |-> analysis.recommendedPriorityFee,
     nonce |-> ChainNonce]

(* protectTransaction up to its first await: a disabled transform returns  *)
(* createBasicProtection                                                   *)
ProtectTransaction ==
    /\ mev.pc = "idle"
    /\ mev' = IF mev.enabled
              THEN [mev EXCEPT !.pc = "analyze"]
              ELSE [mev EXCEPT
                      !.pc = "send",
                      !.fault = "disabled",
                      !.result = <<createBasicProtection(mev.request)>>]
    /\ UNCHANGED gas

(* analyzeMEVRisk: a read of getCode or getFeeData that rejects is caught  *)
(* and getDefaultAnalysis returned                                         *)
AnalyzeMEVRisk ==
    /\ mev.pc = "analyze"
    /\ \E readFails \in BOOLEAN, feeFails \in BOOLEAN,
          dex \in (IF mev.request.to THEN BOOLEAN ELSE {FALSE}) :
          mev' = [mev EXCEPT
                    !.pc = "apply",
                    !.fault = IF readFails THEN "analysis" ELSE @,
                    !.analysis =
                        IF readFails THEN <<getDefaultAnalysis>>
                        ELSE <<analyzeMEVRisk(mev.request, dex, feeFails)>>]
    /\ UNCHANGED gas

(* applyProtection: a getTransactionCount that rejects is caught and       *)
(* createBasicProtection returned                                          *)
ApplyProtection ==
    /\ mev.pc = "apply"
    /\ \E nonceFails \in BOOLEAN :
          mev' = [mev EXCEPT
                    !.pc = "send",
                    !.fault = IF nonceFails THEN "nonce" ELSE @,
                    !.result =
                        IF nonceFails
                        THEN <<createBasicProtection(mev.request)>>
                        ELSE <<applyProtection(mev.request, mev.analysis[1])>>]
    /\ UNCHANGED gas

(* the orchestrator: sendTransaction(protectedTx.transaction) *)
SubmitProtected ==
    /\ mev.pc = "send"
    /\ mev' = [mev EXCEPT !.pc = "done",
                          !.sent = <<mev.result[1].transaction>>]
    /\ UNCHANGED gas

(* the orchestrator is about to protect and submit the launch transaction  *)
(* or a buy transaction, with the transform enabled or disabled            *)
InitMev ==
    /\ InitBatch /\ InitBundleIdle /\ InitTxIdle
    /\ gas = [pc |-> "none"]
    /\ \E kind \in {"launch", "buy"}, enabled \in BOOLEAN,
          request \in MevRequests :
          mev = [pc |-> "idle", kind |-> kind, enabled |-> enabled,
                 request |-> request, fault |-> "none", analysis |-> <<>>,
                 result |-> <<>>, sent |-> <<>>]

NextMev ==
    \/ ProtectTransaction /\ UNCHANGED <<batchVars, bundleVars, txVars>>
    \/ AnalyzeMEVRisk /\ UNCHANGED <<batchVars, bundleVars, txVars>>
    \/ ApplyProtection /\ UNCHANGED <<batchVars, bundleVars, txVars>>
    \/ SubmitProtected /\ UNCHANGED <<batchVars, bundleVars, txVars>>

SpecMev == InitMev /\ [][NextMev]_vars

----------------------------------------------------------------------------
(* GasOptimizer.  Fees are in units of 10^5 wei, so that every product of  *)
(* a whole number of gwei with the multipliers below is a whole number of  *)
(* units; the prices of the history samples are in gwei (the congestion    *)
(* score is a ratio of prices).                                            *)

MaxRefreshes == 2   \* updateGasPriceHistory calls explored
Gwei == 10000       \* 1e9 wei
HistorySize == 10   \* gasConfig.gasPriceHistorySize (the default is 100)

(* gasConfig as loadGasConfig builds it: optimisation on or off, the       *)
(* default gasPriceBuffer 1.1 or none, priorityFeeBuffer 1.2, and 1 and    *)
(* 20 gwei as limits                                                       *)
GasConfigs ==
    {[enabled |-> e, gasPriceBuffer |-> b, priorityFeeBuffer |-> <<12, 10>>,
      minGasPrice |-> 1, maxGasPrice |-> 20, gasPriceHistorySize |-> HistorySize] :
        e \in BOOLEAN, b \in {<<11, 10>>, <<10, 10>>}}

(* what provider.getFeeData() does: it rejects (<<>>), or returns a gas    *)
(* price of 5 or 20 gwei, or none (feeData.gasPrice || BigInt(0)), with a  *)
(* priority fee of 1 gwei                                                  *)
FeeReads ==
    {<<>>} \cup {<<[gasPrice |-> g, maxPriorityFeePerGas |-> 1]>> : g \in {0, 5, 20}}

(* a GasPriceData of the history, by its gasPrice and the order of its     *)
(* timestamp                                                               *)
GasPriceData(gasPrice, timestamp) ==
    [gasPrice |-> gasPrice, timestamp |-> timestamp]

(* histories earlier refreshes have left: none, nine samples of 5 gwei,    *)
(* nine samples without a gas price, five of 23 and five of 57 gwei        *)
Histories ==
    {[i \in 1..n |-> GasPriceData(g, i)] : n \in {0, 9}, g \in {0, 5}}
    \cup {[i \in 1..10 |-> GasPriceData(IF i < 6 THEN 23 ELSE 57, i)]}

(* BigInt(Math.floor(Number(x) * m)), m being <<numerator, denominator>> *)
floorMul(x, m) == (x * m[1]) \div m[2]

(* this.gasPriceHistory.slice(-size) *)
sliceFirst(history, size) ==
    IF Len(history) > size THEN SubSeq(history, 1, size) ELSE history
sliceLast(history, size) ==
    IF Len(history) > size
    THEN SubSeq(history, Len(history) - size + 1, Len(history))
    ELSE history

(* a congestion score c, kept as the fraction sq[1] / sq[2] = c * c, or    *)
(* NaN                                                                     *)
Score(nan, num, den) == [nan |-> nan, sq |-> <<num, den>>]

(* getNetworkCongestion: 0.5 under ten samples; otherwise, over the last   *)
(* ten prices, Math.min(2 * Math.sqrt(variance) / avgPrice, 1.0), where    *)
(* avgPrice = S / 10 and variance = Q / 10 - avgPrice^2 for the sum S and  *)
(* the sum of squares Q: the square of the quotient is                     *)
(* 4 * (10 * Q - S * S) / (S * S).  With S = 0 the quotient is 0 / 0, NaN, *)
(* and Math.min(NaN, 1.0) is NaN.                                          *)
getNetworkCongestion(history) ==
    IF Len(history) < 10 THEN Score(FALSE, 1, 4)
    ELSE LET recentPrices == sliceLast(history, 10)
             S == Sum([i \in 1..10 |-> recentPrices[i].gasPrice], 1..10)
             Q == Sum([i \in 1..10 |-> recentPrices[i].gasPrice
                                          * recentPrices[i].gasPrice], 1..10)
             V == 4 * (10 * Q - S * S)
         IN  IF S = 0 THEN Score(TRUE, 0, 1)
             ELSE IF V > S * S THEN Score(FALSE, 1, 1)
             ELSE Score(FALSE, V, S * S)

(* congestion > tenths / 10 and congestion < tenths / 10; both are false   *)
(* of NaN                                                                  *)
above(c, tenths) == ~c.nan /\ 100 * c.sq[1] > tenths * tenths * c.sq[2]
below(c, tenths) == ~c.nan /\ 100 * c.sq[1] < tenths * tenths * c.sq[2]

(* the multipliers of calculateOptimalGasPrice ([1]) and of                *)
(* calculateOptimalPriorityFee ([2]), in tenths                            *)
congestionMultiplier(c) ==
    IF above(c, 8) THEN <<15, 20>>
    ELSE IF above(c, 6) THEN <<12, 15>>
    ELSE IF below(c, 3) THEN <<9, 8>>
    ELSE <<10, 10>>

(* calculateOptimalGasPrice: multiplier, buffer, and the minimum *)
calculateOptimalGasPriceUnbuffered(cfg, history, currentGasPrice) ==
    LET m == congestionMultiplier(getNetworkCongestion(history))[1]
        optimalGasPrice == floorMul(currentGasPrice, <<m, 10>>)
        minGasPrice == cfg.minGasPrice * Gwei
    IN  IF optimalGasPrice > minGasPrice THEN optimalGasPrice ELSE minGasPrice
calculateOptimalGasPrice(cfg, history, currentGasPrice) ==
    LET m == congestionMultiplier(getNetworkCongestion(history))[1]
        optimalGasPrice == floorMul(currentGasPrice, <<m, 10>>)
        bufferedGasPrice == floorMul(optimalGasPrice, cfg.gasPriceBuffer)
        minGasPrice == cfg.minGasPrice * Gwei
    IN  IF bufferedGasPrice > minGasPrice THEN bufferedGasPrice ELSE minGasPrice

(* getOptimalGasPrice: 5 gwei when getFeeData rejects, the network's price *)
(* when the optimisation is off                                            *)
getOptimalGasPrice(cfg, history, read) ==
    IF read = <<>> THEN 5 * Gwei
    ELSE IF ~cfg.enabled THEN read[1].gasPrice * Gwei
    ELSE calculateOptimalGasPrice(cfg, history, read[1].gasPrice * Gwei)

(* getOptimalPriorityFee with calculateOptimalPriorityFee: 1 gwei when     *)
(* getFeeData rejects; multiplier and buffer, and no limit                 *)
getOptimalPriorityFee(cfg, history, read) ==
    IF read = <<>> THEN 1 * Gwei
    ELSE IF ~cfg.enabled THEN read[1].maxPriorityFeePerGas * Gwei
    ELSE LET m == congestionMultiplier(getNetworkCongestion(history))[2]
         IN  floorMul(floorMul(read[1].maxPriorityFeePerGas * Gwei, <<m, 10>>),
                      cfg.priorityFeeBuffer)

(* getUrgentGasPrice from the return of getOptimalGasPrice: the urgency    *)
(* of the type times the congestion band, in hundredths, and both limits   *)
getUrgentGasPrice(cfg, history, type, baseGasPrice) ==
    LET c == getNetworkCongestion(history)
        urgency == IF type = "LAUNCH" THEN 15 ELSE 12
        band == IF above(c, 8) THEN 13 ELSE IF above(c, 6) THEN 11 ELSE 10
        urgentGasPrice == floorMul(baseGasPrice, <<urgency * band, 100>>)
        maxGasPrice == cfg.maxGasPrice * Gwei
        minGasPrice == cfg.minGasPrice * Gwei
    IN  IF urgentGasPrice > maxGasPrice THEN maxGasPrice
        ELSE IF urgentGasPrice < minGasPrice THEN minGasPrice
        ELSE urgentGasPrice

(* the last call on the optimizer: which method, with what type, what      *)
(* getFeeData did, the congestion score of the history at each point the   *)
(* call reads it, in order, the base price an urgent call obtained, and    *)
(* what the call returned                                                  *)
FeeCall(op, type, read, congestion, base, value) ==
    [op |-> op, type |-> type, read |-> read, congestion |-> congestion,
     base |-> base, value |-> value]

GetOptimalGasPrice ==
    /\ gas.pc = "idle"
    /\ \E read \in FeeReads :
          LET v == getOptimalGasPrice(gas.cfg, gas.history, read) IN
          gas' = [gas EXCEPT !.last =
                    FeeCall("base", "none", read,
                            <<getNetworkCongestion(gas.history)>>, v, v)]
    /\ UNCHANGED mev

GetOptimalPriorityFee ==
    /\ gas.pc = "idle"
    /\ \E read \in FeeReads :
          gas' = [gas EXCEPT !.last =
                    FeeCall("priority", "none", read,
                            <<getNetworkCongestion(gas.history)>>, 0,
                            getOptimalPriorityFee(gas.cfg, gas.history, read))]
    /\ UNCHANGED mev

(* getUrgentGasPrice up to the return of getOptimalGasPrice *)
GetUrgentGasPrice ==
    /\ gas.pc = "idle"
    /\ \E type \in {"LAUNCH", "BUY"}, read \in FeeReads :
          gas' = [gas EXCEPT
                    !.pc = "urgent",
                    !.last =
                        FeeCall("urgent", type, read,
                                <<getNetworkCongestion(gas.history)>>,
                                getOptimalGasPrice(gas.cfg, gas.history, read),
                                0)]
    /\ UNCHANGED mev

(* getUrgentGasPrice from there to its return *)
UrgentReturn ==
    /\ gas.pc = "urgent"
    /\ gas' = [gas EXCEPT
                 !.pc = "idle",
                 !.last.congestion =
                     Append(@, getNetworkCongestion(gas.history)),
                 !.last.value =
                     getUrgentGasPrice(gas.cfg, gas.history, gas.last.type,
                                       gas.last.base)]
    /\ UNCHANGED mev

(* updateGasPriceHistory, on the timer or by refreshGasPriceHistory: a     *)
(* getFeeData that rejects is caught; otherwise the sample is pushed and   *)
(* the history cut to its last gasPriceHistorySize samples                 *)
UpdateGasPriceHistory ==
    /\ gas.pc \in {"idle", "urgent"}
    /\ gas.refreshes < MaxRefreshes
    /\ \E read \in FeeReads :
          gas' = IF read = <<>>
                 THEN [gas EXCEPT !.refreshes = @ + 1]
                 ELSE [gas EXCEPT
                         !.refreshes = @ + 1,
                         !.arrivals = @ + 1,
                         !.history =
                             sliceLast(
                                 Append(@, GasPriceData(read[1].gasPrice,
                                                        gas.arrivals + 1)),
                                 gas.cfg.gasPriceHistorySize)]
    /\ UNCHANGED mev

InitFee ==
    /\ InitBatch /\ InitBundleIdle /\ InitTxIdle
    /\ mev = [pc |-> "none"]
    /\ \E cfg \in GasConfigs, history \in Histories :
          gas = [pc |-> "idle", cfg |-> cfg, history |-> history,
                 arrivals |-> Len(history), refreshes |-> 0,
                 last |-> FeeCall("none", "none", <<>>, <<>>, 0, 0)]

NextFee ==
    \/ GetOptimalGasPrice /\ UNCHANGED <<batchVars, bundleVars, txVars>>
    \/ GetOptimalPriorityFee /\ UNCHANGED <<batchVars, bundleVars, txVars>>
    \/ GetUrgentGasPrice /\ UNCHANGED <<batchVars, bundleVars, txVars>>
    \/ UrgentReturn /\ UNCHANGED <<batchVars, bundleVars, txVars>>
    \/ UpdateGasPriceHistory /\ UNCHANGED <<batchVars, bundleVars, txVars>>

SpecFee == InitFee /\ [][NextFee]_vars

----------------------------------------------------------------------------
(* Termination.  The dispatcher, one executeLaunchBundle history and one   *)
(* processBatch call share no state, so each behaviour exercises one of    *)
(* them while the other two stay as constructed.                           *)

InitLive == Init \/ InitBundler \/ InitTx

NextLive ==
    \/ InitBundleIdle /\ InitTxIdle /\ Next
    \/ InitBatch /\ InitTxIdle /\ NextBundler
    \/ NextTx

(* the steps that happen once an awaited call has returned or failed, or a *)
(* setTimeout delay is over: the rest of processBatch in the dispatcher,   *)
(* the steps of a processBatch call after its first, and the steps of      *)
(* executeLaunchBundle after its first                                     *)
Returns ==
    \/ FinishBatch /\ UNCHANGED <<bundleVars, txVars, serviceVars>>
    \/ \/ LaunchSend /\ UNCHANGED <<batchVars, txVars, serviceVars>>
       \/ LaunchReceipt /\ UNCHANGED <<batchVars, txVars, serviceVars>>
       \/ BuySend /\ UNCHANGED <<batchVars, txVars, serviceVars>>
       \/ BuyReceipt /\ UNCHANGED <<batchVars, txVars, serviceVars>>
       \/ BuyFinish /\ UNCHANGED <<batchVars, txVars, serviceVars>>
    \/ run.pc # "idle" /\ NextTx

(* every RPC call eventually returns or fails, and timers fire *)
SpecLive == InitLive /\ [][NextLive]_vars /\ WF_vars(NextLive /\ Returns)

----------------------------------------------------------------------------
(* Claims about the batch queue and its dispatcher *)

StatusIs(b, st) == batches[b].status = st

(* C1: at most one batch has status PROCESSING at any time.  The timer     *)
(* callback is async and setInterval does not wait for it, so a tick that  *)
(* fires while an earlier batch is still inside processBatch starts a      *)
(* second one: this statement is violated.                                 *)
C1_AtMostOneProcessing ==
    Cardinality({b \in DOMAIN batches : StatusIs(b, "PROCESSING")}) <= 1

(* C2: once stopProcessing has run and no queueBatch has restarted the     *)
(* dispatcher (isProcessing is false), no tick shifts a batch off the      *)
(* queue.  stopProcessing only clears the flag and the timer keeps firing: *)
(* this statement is violated.                                             *)
C2_NoDispatchAfterStop ==
    [][~isProcessing => dispatched' = dispatched]_vars

(* b1 stands before b2 in the order of the queue: higher priority first,  *)
(* then the earlier createdAt                                              *)
InQueueOrder(b1, b2) ==
    \/ priorityOrder(batches[b1].priority) > priorityOrder(batches[b2].priority)
    \/ /\ batches[b1].priority = batches[b2].priority
       /\ batches[b1].createdAt <= batches[b2].createdAt

(* C3: in every reachable state the queue is sorted by priority           *)
(* descending and, among equal priorities, by createdAt ascending.         *)
C3_QueueSorted ==
    \A i, j \in 1..Len(batchQueue) :
        i < j => InQueueOrder(batchQueue[i], batchQueue[j])

(* a queue of three in which the sort moved a later batch ahead of an      *)
(* earlier one and two batches of one priority differ in createdAt         *)
C3_Witness ==
    /\ Len(batchQueue) = 3
    /\ batchQueue[1] > batchQueue[2]
    /\ batches[batchQueue[2]].priority = batches[batchQueue[3]].priority
    /\ batches[batchQueue[2]].createdAt < batches[batchQueue[3]].createdAt

(* C4: a tick removes at most one batch, the head of the queue; and when   *)
(* every batch was enqueued before the first removal, the batches are      *)
(* dispatched by priority descending, then in arrival order (ids grow with *)
(* arrival).                                                               *)
C4_HeadDispatch ==
    /\ [][dispatched' # dispatched =>
            /\ batchQueue # <<>>
            /\ dispatched' = Append(dispatched, Head(batchQueue))
            /\ batchQueue' = Tail(batchQueue)]_vars
    /\ [](~lateEnqueue =>
            \A i, j \in 1..Len(dispatched) :
                i < j =>
                    \/ priorityOrder(batches[dispatched[i]].priority)
                         > priorityOrder(batches[dispatched[j]].priority)
                    \/ /\ batches[dispatched[i]].priority
                            = batches[dispatched[j]].priority
                       /\ dispatched[i] < dispatched[j])

(* enqueued LOW, HIGH, MEDIUM before any tick; dispatched HIGH, MEDIUM, LOW *)
C4_Witness ==
    /\ ~lateEnqueue
    /\ DOMAIN batches = {1, 2, 3}
    /\ batches[1].priority = "LOW"
    /\ batches[2].priority = "HIGH"
    /\ batches[3].priority = "MEDIUM"
    /\ dispatched = <<2, 3, 1>>

(* C5: a batch whose deadline is past when a tick shifts it off the queue  *)
(* is marked TIMEOUT; a TIMEOUT batch has had no transaction validated or  *)
(* submitted, is not in the queue, and stays as it is.                     *)
C5_ExpiredBatchAbandoned ==
    /\ [][\A b \in DOMAIN batches :
            (/\ batchQueue # <<>>
             /\ b = Head(batchQueue)
             /\ dispatched' # dispatched
             /\ now > batches[b].timeout)
            => batches'[b].status = "TIMEOUT"]_vars
    /\ [](\A b \in DOMAIN batches :
            StatusIs(b, "TIMEOUT") =>
                /\ batches[b].validated = 0
                /\ batches[b].submitted = 0
                /\ batches[b].procId = 0
                /\ b \notin SeqToSet(batchQueue))
    /\ [][\A b \in DOMAIN batches :
            StatusIs(b, "TIMEOUT") => batches'[b] = batches[b]]_vars

C5_Witness ==
    \E b \in DOMAIN batches :
        /\ StatusIs(b, "TIMEOUT")
        /\ b \in SeqToSet(dispatched)
        /\ now > batches[b].timeout

BatchTransitions ==
    {<<"QUEUED", "PROCESSING">>, <<"QUEUED", "TIMEOUT">>,
     <<"PROCESSING", "COMPLETED">>, <<"PROCESSING", "FAILED">>}

(* C6: a batch starts QUEUED and its status only moves QUEUED ->           *)
(* PROCESSING -> COMPLETED|FAILED or QUEUED -> TIMEOUT; in particular a    *)
(* PROCESSING batch never becomes TIMEOUT, and COMPLETED, FAILED and        *)
(* TIMEOUT are never left.                                                  *)
C6_BatchStatusMoves ==
    [][\A b \in DOMAIN batches' :
          IF b \in DOMAIN batches
          THEN \/ batches'[b].status = batches[b].status
               \/ <<batches[b].status, batches'[b].status>> \in BatchTransitions
          ELSE batches'[b].status = "QUEUED"]_vars

(* a batch still being processed after its deadline has passed *)
C6_Witness ==
    \E b \in DOMAIN batches :
        StatusIs(b, "PROCESSING") /\ now > batches[b].timeout

(* C7: a dispatched batch that has finished is COMPLETED exactly when      *)
(* processBatch returned a result with successfulTxs > 0; it is FAILED     *)
(* when successfulTxs = 0 and when processBatch threw (no result stored).  *)
C7_CompletedIffSuccess ==
    \A b \in DOMAIN batches :
        batches[b].status \in {"COMPLETED", "FAILED"} =>
            (StatusIs(b, "COMPLETED") <=>
                /\ batches[b].procId \in DOMAIN activeBatches
                /\ activeBatches[batches[b].procId].successfulTxs > 0)

(* one batch COMPLETED and another FAILED with a stored result *)
C7_Witness ==
    \E a, b \in DOMAIN batches :
        /\ StatusIs(a, "COMPLETED")
        /\ StatusIs(b, "FAILED")
        /\ batches[b].procId \in DOMAIN activeBatches

----------------------------------------------------------------------------
(* Claims about the bundle orchestrator *)

(* C8: a bundle is BUYING only if a launch transaction of it was submitted *)
(* and its receipt reported success, and no buy transaction of a bundle is *)
(* submitted before such a confirmation; a call is in its buy wave only    *)
(* after its own launch was confirmed.                                     *)
C8_BuyingOnlyAfterLaunchConfirmed ==
    /\ \A b \in DOMAIN activeBundles :
          /\ activeBundles[b].status = "BUYING" => launchLog[b].confirmed >= 1
          /\ launchLog[b].buys > 0 => launchLog[b].confirmed >= 1
          /\ launchLog[b].confirmed <= launchLog[b].launches
    /\ \A c \in DOMAIN calls :
          calls[c].pc = "buying" => calls[c].launch = "confirmed"

(* a bundle in BUYING with a buy transaction submitted *)
C8_Witness ==
    \E b \in DOMAIN activeBundles :
        activeBundles[b].status = "BUYING" /\ launchLog[b].buys > 0

(* C9: when the launch of a call fails (the submission is rejected, or the *)
(* receipt does not report success) that step sets the bundle to FAILED,   *)
(* and the call starts no buy wave and returns a result with success false *)
(* and successfulBuys = failedBuys = 0.                                    *)
C9_LaunchFailure ==
    /\ [][\A c \in DOMAIN calls :
            (calls[c].launch = "pending" /\ calls'[c].launch = "failed")
            => activeBundles'[calls[c].bundleId].status = "FAILED"]_vars
    /\ [](\A c \in DOMAIN calls :
            calls[c].launch = "failed" =>
                /\ calls[c].pc = "done"
                /\ calls[c].buys = <<>>
                /\ Len(calls[c].ret) = 1
                /\ ~calls[c].ret[1].success
                /\ calls[c].ret[1].successfulBuys = 0
                /\ calls[c].ret[1].failedBuys = 0)

(* a call whose submitted launch came back without success *)
C9_Witness ==
    \E c \in DOMAIN calls :
        /\ calls[c].launch = "failed"
        /\ calls[c].pc = "done"
        /\ launchLog[calls[c].bundleId].launches >= 1
        /\ launchLog[calls[c].bundleId].confirmed = 0
        /\ launchLog[calls[c].bundleId].buys = 0
        /\ activeBundles[calls[c].bundleId].status = "FAILED"

BundleTransitions ==
    {<<"PENDING", "LAUNCHING">>, <<"LAUNCHING", "BUYING">>,
     <<"LAUNCHING", "FAILED">>, <<"BUYING", "COMPLETED">>,
     <<"BUYING", "FAILED">>}

(* C10: the status of a bundle changes only along PENDING -> LAUNCHING ->  *)
(* BUYING -> COMPLETED|FAILED and LAUNCHING -> FAILED.  executeLaunchBundle *)
(* sets LAUNCHING without looking at the status, so a second call on the   *)
(* same bundle leaves COMPLETED, FAILED or BUYING: this statement is       *)
(* violated.                                                               *)
C10_BundleStatusMoves ==
    [][\A b \in DOMAIN activeBundles :
          \/ activeBundles'[b].status = activeBundles[b].status
          \/ <<activeBundles[b].status, activeBundles'[b].status>>
                \in BundleTransitions]_vars

(* the step in which call c leaves its buy wave: executeBuyTransactions has *)
(* returned and executeLaunchBundle runs on to its return                  *)
BuyWaveProcessed(c) ==
    /\ c \in DOMAIN calls
    /\ calls[c].pc = "buying"
    /\ calls'[c].pc = "done"

(* C11: the step that ends the buy wave of a bundle sets the bundle to     *)
(* COMPLETED if at least one buy transaction of the wave was confirmed     *)
(* with success, and to FAILED otherwise, in particular when the bundle    *)
(* has no buy transaction.                                                 *)
C11_StatusAfterBuyWave ==
    [][\A c \in DOMAIN calls :
          BuyWaveProcessed(c) =>
              activeBundles'[calls[c].bundleId].status =
                  IF \E i \in DOMAIN calls[c].buys : calls[c].buys[i] = "ok"
                  THEN "COMPLETED" ELSE "FAILED"]_vars

(* a call that returned after a confirmed buy, its bundle COMPLETED *)
C11_Witness ==
    \E c \in DOMAIN calls :
        /\ calls[c].pc = "done"
        /\ calls[c].launch = "confirmed"
        /\ \E i \in DOMAIN calls[c].buys : calls[c].buys[i] = "ok"
        /\ activeBundles[calls[c].bundleId].status = "COMPLETED"

(* C12: a call whose launch was confirmed emits exactly one bundleExecuted *)
(* event, in the step that ends its buy wave; the event carries the result *)
(* that the call returns and that is stored for the bundle, and the bundle *)
(* is COMPLETED or FAILED when it is emitted.  A listener that throws      *)
(* makes emit throw after the status was set: the catch block stores and   *)
(* returns another result than the one emitted: this statement is          *)
(* violated.                                                               *)
C12_OneEventSameResult ==
    [][/\ \A c \in DOMAIN calls :
             BuyWaveProcessed(c) =>
                 /\ Len(events') = Len(events) + 1
                 /\ events'[Len(events')] = calls'[c].ret[1]
                 /\ events'[Len(events')] = bundleResults'[calls[c].bundleId]
                 /\ activeBundles'[calls[c].bundleId].status
                       \in {"COMPLETED", "FAILED"}
       /\ (\A c \in DOMAIN calls : ~BuyWaveProcessed(c)) => events' = events]_vars

----------------------------------------------------------------------------
(* Claims about one processBatch call *)

Attempts(i) == Len(attempts[i])
Finished(i) == task[i].phase = "done"

(* C13: the retryCount of a transaction never decreases and never exceeds  *)
(* retryAttempts, from whatever retryCount within that limit earlier       *)
(* processBatch calls left on the transaction.                             *)
C13_RetryCountBounded ==
    /\ [][\A i \in DOMAIN txs :
            txs'[i].retryCount >= txs[i].retryCount]_vars
    /\ [](\A i \in DOMAIN txs : txs[i].retryCount <= RetryAttempts)

(* one transaction came in with its retries used up, failed and was not    *)
(* submitted again; another failed and was retried                         *)
C13_Witness ==
    \E i, j \in DOMAIN txs :
        /\ input[i].retryCount = RetryAttempts
        /\ Finished(i)
        /\ Attempts(i) = 1
        /\ attempts[i][1].result = "failed"
        /\ txs[i].retryCount = RetryAttempts
        /\ input[j].retryCount < RetryAttempts
        /\ Attempts(j) = 2
        /\ txs[j].retryCount = input[j].retryCount + 1

(* later = the floor of earlier times the increment inc *)
IsFloorOf(later, earlier, inc) ==
    /\ later * inc[2] <= earlier * inc[1]
    /\ earlier * inc[1] < (later + 1) * inc[2]

C15_RetryOnceThenConfirmed ==
    \A i \in DOMAIN txs :
        (/\ input[i].retryCount = 0
         /\ Finished(i)
         /\ attempts[i][1].result = "failed")
        => /\ Attempts(i) = 2
           /\ txs[i].retryCount = 1
           /\ IsFloorOf(attempts[i][2].gasPrice, input[i].gasPrice,
                        GasPriceIncrement)
           /\ IsFloorOf(attempts[i][2].priorityFee, input[i].priorityFee,
                        PriorityFeeIncrement)
           /\ attempts[i][2].gasPrice > input[i].gasPrice
                \/ attempts[i][2].priorityFee > input[i].priorityFee
           /\ attempts[i][2].result = "success"
                => txs[i].status = "CONFIRMED"

C15_Witness ==
    \E i \in DOMAIN txs :
        /\ input[i].retryCount = 0
        /\ Finished(i)
        /\ Attempts(i) = 2
        /\ attempts[i][1].result = "failed"
        /\ attempts[i][2].result = "success"
        /\ txs[i].status = "CONFIRMED"
        /\ txs[i].retryCount = 1

----------------------------------------------------------------------------
(* Claims about validateTransactions *)

Validated == run.pc \notin {"idle", "validate"}

(* transaction i has a destination and a signer, and the balance read for  *)
(* its signer is at least gasPrice x gasLimit + value                      *)
Eligible(i) ==
    /\ input[i].to
    /\ input[i].wallet # NoWallet
    /\ seen[i].balance = "ok"
    /\ seen[i].amount >=
          input[i].gasPrice * gasLimitOf(input[i]) + input[i].value

(* ... and the pending transaction count could be read where the           *)
(* transaction came without a nonce                                        *)
EligibleAndNonced(i) ==
    /\ Eligible(i)
    /\ input[i].nonce = Unset => seen[i].nonce = "ok"

Indices == [i \in 1..Len(input) |-> i]

(* no transaction outside validTransactions is ever handed to              *)
(* sendTransaction                                                         *)
ExcludedNeverSubmitted ==
    \A i \in DOMAIN attempts :
        attempts[i] # <<>> => Validated /\ i \in SeqToSet(run.valid)

(* C16, as the code has it: validTransactions holds, in input order,       *)
(* exactly the transactions that have a destination and a signer, whose    *)
(* signer balance is at least gasPrice x gasLimit + value and, where the   *)
(* nonce was unset, whose pending transaction count could be read; a       *)
(* transaction left out is never submitted.                                *)
C16_ValidateKeepsEligibleAndNonced ==
    /\ Validated => run.valid = SelectSeq(Indices, EligibleAndNonced)
    /\ ExcludedNeverSubmitted

(* the first transaction dropped for a balance one unit short, the second  *)
(* kept with exactly the balance it needs, and only the second submitted   *)
C16_Witness ==
    /\ Len(input) >= 2
    /\ seen[1].balance = "ok"
    /\ seen[1].amount < required(input[1])
    /\ seen[2].amount = required(input[2])
    /\ run.valid = <<2>>
    /\ attempts[1] = <<>>
    /\ attempts[2] # <<>>

(* C16, as stated: validTransactions holds, in input order, exactly the    *)
(* transactions that have a destination and a signer and whose signer      *)
(* balance is at least gasPrice x gasLimit + value; a transaction left out *)
(* is never submitted.                                                     *)
C16_ValidateKeepsEligible ==
    /\ Validated => run.valid = SelectSeq(Indices, Eligible)
    /\ ExcludedNeverSubmitted

(* C17: processBatch does not throw, whichever of its transactions fail    *)
(* validation.  When none passes, processBatch throws 'No valid            *)
(* transactions in batch': this statement is violated.                     *)
C17_ValidationNeverAborts == run.pc # "thrown"

----------------------------------------------------------------------------
(* Claims about the groups of one processBatch call *)

(* C18: a batch of a group whose processing threw adds to failedTxs the    *)
(* number of transactions it holds.  The code adds maxBatchSize, also for  *)
(* a last batch that holds fewer: this statement is violated.              *)
C18_ThrownGroupCountsItsTransactions ==
    \A k \in DOMAIN run.faults : run.faults[k].added = run.faults[k].size

(* submitted and neither confirmed nor failed: the response of             *)
(* sendTransaction is in and response.wait() is pending                    *)
InFlight(i) == task[i].phase = "wait"

(* C19: no two transactions of one signer are in flight at the same time.  *)
(* processTransactionBatch starts every transaction of a group at once,    *)
(* whoever signs it: this statement is violated.                           *)
C19_OneInFlightPerSigner ==
    \A i, j \in DOMAIN task :
        (i # j /\ InFlight(i) /\ InFlight(j))
            => txs[i].wallet # txs[j].wallet

(* C20: for one signer the nonces handed to sendTransaction strictly       *)
(* increase: from one attempt of a transaction to its next, and between    *)
(* two transactions of the signer (so no two of them are equal).  A retry  *)
(* reuses the nonce of the failed attempt and two transactions validated   *)
(* together read the same pending count: this statement is violated.       *)
C20_NoncesIncrease ==
    /\ \A i \in DOMAIN attempts : \A k \in 1..(Attempts(i) - 1) :
          attempts[i][k].nonce < attempts[i][k + 1].nonce
    /\ \A i, j \in DOMAIN attempts :
          (i # j /\ txs[i].wallet = txs[j].wallet) =>
              \A k \in 1..Attempts(i), l \in 1..Attempts(j) :
                  attempts[i][k].nonce # attempts[j][l].nonce

----------------------------------------------------------------------------
(* Claims about the groups of one processBatch call *)

(* executeTransaction has been called for transaction i and its callback   *)
(* has not settled                                                         *)
Running(i) == task[i].phase \notin {"none", "done"}

(* the wave (group of parallel batches) of the transaction at position p   *)
(* of validTransactions, counted from 0                                    *)
WaveOf(p) == (p - 1) \div (run.batchSize * run.parallelBatches)

(* C21: a processBatch call runs at most parallelBatches batches of at     *)
(* most maxBatchSize transactions at a time, so at most maxBatchSize x     *)
(* parallelBatches transactions are under way, and no transaction of a     *)
(* later wave is submitted before every transaction of the earlier waves   *)
(* has settled.                                                            *)
C21_WavesBounded ==
    /\ Len(run.subs) <= run.parallelBatches
    /\ \A k \in DOMAIN run.subs :
          Cardinality(SubPositions(run.from, Len(run.valid), k))
              <= run.batchSize
    /\ Cardinality({i \in DOMAIN task : Running(i)})
          <= run.batchSize * run.parallelBatches
    /\ \A p, q \in DOMAIN run.valid :
          (WaveOf(p) < WaveOf(q) /\ task[run.valid[q]].phase # "none")
              => /\ Finished(run.valid[p])
                 /\ ~(run.from < WaveOf(q) * run.batchSize * run.parallelBatches)

(* a transaction of the second wave has been handed to sendTransaction    *)
(* and has not settled                                                     *)
C21_Witness ==
    /\ run.pc = "settle"
    /\ run.from > 0
    /\ \E i \in DOMAIN task : Running(i) /\ attempts[i] # <<>>

(* C28: when processBatch returns, every transaction that passed           *)
(* validation has status CONFIRMED or FAILED; none is left PENDING, SENT   *)
(* or RETRY.                                                               *)
C28_ReturnedMeansSettled ==
    run.pc = "returned" =>
        \A p \in DOMAIN run.valid :
            txs[run.valid[p]].status \in {"CONFIRMED", "FAILED"}

(* processBatch has returned over one transaction confirmed at its first   *)
(* attempt and one that failed, was retried and failed again               *)
C28_Witness ==
    /\ run.pc = "returned"
    /\ \E p, q \in DOMAIN run.valid :
          /\ txs[run.valid[p]].status = "CONFIRMED"
          /\ Attempts(run.valid[p]) = 1
          /\ txs[run.valid[q]].status = "FAILED"
          /\ Attempts(run.valid[q]) = 2

----------------------------------------------------------------------------
(* Claims about the bundle store *)

(* C30: the stored bundles only grow: no createLaunchBundle or             *)
(* executeLaunchBundle step removes a bundle from activeBundles, and of a  *)
(* stored bundle only the status changes.                                  *)
C30_BundlesOnlyGrow ==
    [][\A b \in DOMAIN activeBundles :
          /\ b \in DOMAIN activeBundles'
          /\ activeBundles'[b].buyTxs = activeBundles[b].buyTxs]_vars

(* a bundle that was executed to FAILED and executed again is stored,      *)
(* with the result of the second call                                      *)
C30_Witness ==
    \E c, d \in DOMAIN calls :
        /\ c < d
        /\ calls[c].bundleId = calls[d].bundleId
        /\ calls[c].pc = "done" /\ calls[d].pc = "done"
        /\ calls[c].launch = "failed"
        /\ calls[d].bundleId \in DOMAIN activeBundles
        /\ calls[d].bundleId \in DOMAIN bundleResults

----------------------------------------------------------------------------
(* Claims about the MEV-protection transform *)

(* C29: when the transform is disabled or falls back (the analysis or the  *)
(* nonce read failed), the orchestrator still calls sendTransaction, and   *)
(* with the transaction it handed to the transform, unmodified.            *)
C29_FallbackSubmitsOriginal ==
    mev.fault # "none" =>
        /\ mev.pc \in {"apply", "send", "done"}
        /\ mev.pc \in {"send", "done"} =>
              mev.result[1].transaction = mev.request
        /\ mev.pc = "done" => mev.sent = <<mev.request>>

(* the analysis found CRITICAL risk, the nonce read of applyProtection     *)
(* failed, and the launch transaction was submitted                        *)
C29_Witness ==
    /\ mev.pc = "done"
    /\ mev.kind = "launch"
    /\ mev.fault = "nonce"
    /\ mev.analysis[1].riskLevel = "CRITICAL"
    /\ mev.sent # <<>>

----------------------------------------------------------------------------
(* Claims about the fee estimator *)

(* a fee call has returned *)
Returned(op) == gas.pc = "idle" /\ gas.last.op = op

(* C22: what getOptimalGasPrice and getUrgentGasPrice return lies in       *)
(* [minGasPrice, maxGasPrice], whatever the network price, the history     *)
(* and the outcome of the read.  calculateOptimalGasPrice enforces the     *)
(* minimum only: this statement is violated.                               *)
C22_FeesWithinLimits ==
    (Returned("base") \/ Returned("urgent")) =>
        /\ ~(gas.last.value < gas.cfg.minGasPrice * Gwei)
        /\ ~(gas.last.value > gas.cfg.maxGasPrice * Gwei)

(* C23: the congestion score of every history is a number in [0, 1], and   *)
(* 0.5 under ten samples.  Ten samples without a gas price give 0 / 0:     *)
(* this statement is violated.                                             *)
C23_CongestionInUnitInterval ==
    LET c == getNetworkCongestion(gas.history) IN
    /\ ~c.nan
    /\ ~(c.sq[1] < 0) /\ ~(c.sq[1] > c.sq[2])
    /\ Len(gas.history) < 10 => 4 * c.sq[1] = c.sq[2]

(* C24: the history never holds more than gasPriceHistorySize samples; a   *)
(* refresh whose read succeeded puts the new sample behind the samples it  *)
(* keeps, which are the most recent ones in their order, so the oldest are *)
(* the ones dropped; no other step changes the history.                    *)
C24_HistoryKeepsNewest ==
    /\ [](Len(gas.history) <= gas.cfg.gasPriceHistorySize)
    /\ [][gas'.arrivals = gas.arrivals => gas'.history = gas.history]_vars
    /\ [][gas'.arrivals # gas.arrivals =>
            LET n == Len(gas.history)
                m == Len(gas'.history)
            IN  /\ m = Min(n + 1, gas.cfg.gasPriceHistorySize)
                /\ gas'.history[m].timestamp = gas.arrivals + 1
                /\ \A i \in 1..(m - 1) :
                      gas'.history[i] = gas.history[i + (n + 1 - m)]]_vars

(* the history is full and its oldest samples have been dropped *)
C24_Witness ==
    /\ Len(gas.history) = gas.cfg.gasPriceHistorySize
    /\ gas.history[1].timestamp > 1
    /\ gas.arrivals > gas.cfg.gasPriceHistorySize

(* C25: when getFeeData rejects, getOptimalGasPrice returns 5 gwei,        *)
(* getOptimalPriorityFee 1 gwei and getUrgentGasPrice 10 gwei.             *)
(* getUrgentGasPrice gets the 5 gwei of getOptimalGasPrice and goes on:    *)
(* this statement is violated.                                             *)
C25_FallbacksOnFailedRead ==
    gas.last.read = <<>> =>
        /\ Returned("base") => gas.last.value = 5 * Gwei
        /\ Returned("priority") => gas.last.value = 1 * Gwei
        /\ Returned("urgent") => gas.last.value = 10 * Gwei

(* getUrgentGasPrice("LAUNCH") has returned; the network price was 5 gwei, *)
(* the congestion score 0.85 at both reads, the limits 1 and 20 gwei       *)
ScenarioA ==
    /\ Returned("urgent")
    /\ gas.last.type = "LAUNCH"
    /\ gas.last.read # <<>> /\ gas.last.read[1].gasPrice = 5
    /\ gas.cfg.minGasPrice = 1 /\ gas.cfg.maxGasPrice = 20
    /\ \A k \in DOMAIN gas.last.congestion :
          /\ ~gas.last.congestion[k].nan
          /\ 10000 * gas.last.congestion[k].sq[1]
                = 7225 * gas.last.congestion[k].sq[2]

(* C26, as the code has it: in that scenario, with the optimisation on,    *)
(* getUrgentGasPrice("LAUNCH") returns the network price times 1.5, times  *)
(* gasPriceBuffer, times 1.5, times 1.3: 16087500000 wei with the default  *)
(* buffer 1.1, and 14625000000 wei with a buffer of 1.0 (values below in   *)
(* units of 10^5 wei).                                                     *)
C26_ScenarioWithBuffer ==
    (ScenarioA /\ gas.cfg.enabled) =>
        gas.last.value =
            IF gas.cfg.gasPriceBuffer = <<11, 10>> THEN 160875 ELSE 146250

C26_Witness ==
    /\ ScenarioA
    /\ gas.cfg.enabled
    /\ gas.cfg.gasPriceBuffer = <<11, 10>>
    /\ gas.last.value = 160875

(* C26 as stated: in that scenario getUrgentGasPrice("LAUNCH") returns     *)
(* 14625000000 wei.                                                        *)
C26_ScenarioA == ScenarioA => gas.last.value = 146250

----------------------------------------------------------------------------
(* Claims about termination *)

(* C27: if every RPC call eventually returns or fails, every processBatch  *)
(* call eventually returns or throws, every executeLaunchBundle call       *)
(* eventually returns, and every batch the dispatcher shifted off the      *)
(* queue eventually is COMPLETED, FAILED or TIMEOUT, also when             *)
(* stopProcessing runs while the batch is PROCESSING.                      *)
C27_EverythingReturns ==
    /\ (run.pc \notin {"none", "idle"}) ~> (run.pc \in {"returned", "thrown"})
    /\ \A c \in 1..MaxCalls :
          (c \in DOMAIN calls) ~> (c \in DOMAIN calls /\ calls[c].pc = "done")
    /\ \A b \in 1..(2 * MaxBatches) :
          (b \in SeqToSet(dispatched))
              ~> (/\ b \in DOMAIN batches
                  /\ batches[b].status \in {"COMPLETED", "FAILED", "TIMEOUT"})

(* stopProcessing has run while a batch is PROCESSING *)
C27_Witness ==
    /\ ~isProcessing
    /\ \E b \in DOMAIN batches : StatusIs(b, "PROCESSING")

----------------------------------------------------------------------------
(* Claims about the counters of processBatch *)

(* the validated transactions whose status is st *)
WithStatus(st) ==
    {p \in DOMAIN run.valid : txs[run.valid[p]].status = st}

(* C33: in the result processBatch returns, successfulTxs is the number of *)
(* validated transactions that ended CONFIRMED and failedTxs the number    *)
(* that ended FAILED, a transaction confirmed on its retry included (no    *)
(* batch of the call was rejected).  The counters are written before the   *)
(* retry and not after it: this statement is violated.                     *)
C33_CountersMatchStatuses ==
    (run.pc = "returned" /\ run.faults = <<>>) =>
        /\ run.successfulTxs = Cardinality(WithStatus("CONFIRMED"))
        /\ run.failedTxs = Cardinality(WithStatus("FAILED"))

----------------------------------------------------------------------------
(* Claims about the results and the launches of executeLaunchBundle *)

(* the calls of executeLaunchBundle that have returned for a stored bundle *)
ReturnedCalls ==
    {c \in DOMAIN calls : /\ calls[c].pc = "done"
                          /\ calls[c].bundleId \in DOMAIN activeBundles}

(* C34: for every bundle whose launch is confirmed, the result the call    *)
(* returns has successfulBuys + failedBuys = totalBuys = the number of buy *)
(* transactions of the bundle.  The result built after the buy wave has,   *)
(* but a bundleExecuted listener that throws replaces it by the result of  *)
(* the catch block, whose totalBuys is 0: this statement is violated.      *)
C34_BuysAddUp ==
    \A c \in ReturnedCalls :
        calls[c].launch = "confirmed" =>
            /\ calls[c].ret[1].successfulBuys + calls[c].ret[1].failedBuys
                   = calls[c].ret[1].totalBuys
            /\ calls[c].ret[1].totalBuys
                   = Len(activeBundles[calls[c].bundleId].buyTxs)

(* C35: the launch transaction of a bundle is handed to the network at     *)
(* most once, whatever calls of executeLaunchBundle are made for its id.   *)
(* Every call submits the launch again: this statement is violated.        *)
C35_LaunchedAtMostOnce ==
    \A b \in DOMAIN launchLog : launchLog[b].launches <= 1

(* C36: once executeLaunchBundle has returned for a stored bundle, the     *)
(* bundle is COMPLETED or FAILED and bundleResults holds a result for its  *)
(* id whose success flag is true exactly when the status is COMPLETED.     *)
(* A failed launch returns without storing a result, and a listener that   *)
(* throws leaves COMPLETED beside a stored result without success: this    *)
(* statement is violated.                                                  *)
C36_StoredResultMatchesStatus ==
    \A c \in ReturnedCalls :
        /\ activeBundles[calls[c].bundleId].status \in {"COMPLETED", "FAILED"}
        /\ calls[c].bundleId \in DOMAIN bundleResults
        /\ bundleResults[calls[c].bundleId].success
               <=> activeBundles[calls[c].bundleId].status = "COMPLETED"

(* the calls of executeLaunchBundle whose id names no stored bundle *)
UnknownCalls(cs, bundles) ==
    {c \in DOMAIN cs : cs[c].bundleId \notin DOMAIN bundles}

(* C39: executeLaunchBundle with an id that names no stored bundle returns *)
(* in the same step a result whose success is false, submits neither a     *)
(* launch nor a buy, emits no event, and leaves activeBundles, and with it *)
(* the status of every stored bundle, as it was.                           *)
C39_UnknownIdChangesNothing ==
    [][\A c \in UnknownCalls(calls', activeBundles) \ DOMAIN calls :
           /\ calls'[c].pc = "done"
           /\ Len(calls'[c].ret) = 1
           /\ ~calls'[c].ret[1].success
           /\ calls'[c].launch = "pending"
           /\ calls'[c].buys = <<>>
           /\ launchLog' = launchLog
           /\ events' = events
           /\ activeBundles' = activeBundles]_vars

(* a call with an unknown id has returned while a stored bundle is BUYING *)
C39_Witness ==
    /\ \E c \in UnknownCalls(calls, activeBundles) : calls[c].pc = "done"
    /\ \E b \in DOMAIN activeBundles : activeBundles[b].status = "BUYING"

----------------------------------------------------------------------------
(* Claims about the dispatcher timers and the ids of processed batches *)

(* C37: after any sequence of queueBatch and stopProcessing calls at most  *)
(* one dispatcher timer is active.  stopProcessing clears the flag and not *)
(* the timer, and the next queueBatch starts another timer: this statement *)
(* is violated.                                                            *)
C37_OneDispatcherTimer == timers <= 1

(* the batches the dispatcher has processed with a stored result *)
Processed ==
    {b \in DOMAIN batches : /\ batches[b].status \in {"COMPLETED", "FAILED"}
                            /\ batches[b].submitted > 0}

(* C38: once the dispatcher has processed a queued batch, the result of    *)
(* the batch is in activeBatches under the id queueBatch returned.         *)
(* processBatch stores it under an id it generates itself: this statement  *)
(* is violated.                                                            *)
C38_ResultUnderQueuedId ==
    \A b \in Processed : b \in DOMAIN activeBatches

----------------------------------------------------------------------------
(* Claims about createLaunchBundle *)

(* C31: two createLaunchBundle calls with the same launch parameters, the  *)
(* salt equal or absent in both, derive the same token address.  Without a *)
(* salt the address is derived from the symbol and the time of the call:   *)
(* this statement is violated.                                             *)
C31_SameParamsSameAddress ==
    \A a, b \in DOMAIN activeBundles :
        launchLog[a].params = launchLog[b].params =>
            activeBundles[a].tokenAddress = activeBundles[b].tokenAddress

(* the bundles a step stores *)
Created == DOMAIN activeBundles' \ DOMAIN activeBundles

(* C32: a bundle is stored by createLaunchBundle in PENDING, with one buy  *)
(* transaction and one wallet configuration per buy wallet, in the order   *)
(* of buyWallets; every buy transaction goes to the token address derived  *)
(* for the bundle and carries the fixed buy amount.                        *)
C32_OneBuyPerWallet ==
    [][\A b \in Created :
          LET bundle == activeBundles'[b] IN
          /\ bundle.status = "PENDING"
          /\ bundle.tokenAddress
                 = calculateTokenAddress(launchLog'[b].params, now)
          /\ Len(bundle.buyTxs) = buyWallets
          /\ Len(bundle.wallets) = buyWallets
          /\ \A i \in 1..buyWallets :
                 /\ bundle.wallets[i].address = i
                 /\ bundle.buyTxs[i].to = bundle.tokenAddress
                 /\ bundle.buyTxs[i].value = BuyAmount
                 /\ bundle.wallets[i].buyAmount = BuyAmount]_vars

(* two bundles created for different tokens, each with a buy transaction *)
C32_Witness ==
    \E a, b \in DOMAIN activeBundles :
        /\ activeBundles[a].tokenAddress # activeBundles[b].tokenAddress
        /\ Len(activeBundles[a].buyTxs) >= 1
        /\ Len(activeBundles[b].buyTxs) >= 1
        /\ activeBundles[a].buyTxs[1].to = activeBundles[a].tokenAddress
        /\ activeBundles[b].buyTxs[1].to = activeBundles[b].tokenAddress

====
